---- MODULE Spec2Model ----
(***************************************************************************)
(* Model of missav-bot-go: the single-flight scheduler                     *)
(* (internal/scheduler/scheduler.go), the delivery engine (push.Service),  *)
(* the store operations they use (internal/store/mysql.go) and the bot's   *)
(* /crawl and /subscribe handlers.                                         *)
(***************************************************************************)
EXTENDS Bags, FiniteSets, Integers, Sequences, TLC

\* ---------------------------------------------------------------- bounds
\* TryRun calls issued by one manual caller
MaxCalls == 2
\* firings of the scheduler's timer (initial delay + ticker)
MaxTicks == 1
\* rows of the subscriptions table
MaxSubs == 2
\* /crawl commands handled by the bot
MaxBotCrawls == 1
\* PushVideoToChat calls issued by one direct client of push.Service
MaxPushes == 2
\* videos passed to one SaveVideos call
MaxBatch == 2
\* videos listed on one page of the site
MaxPageVideos == 2

\* ---------------------------------------------------------------- domains
Videos == {1, 2}
Chats == {1, 2}
Callers == {"m1", "m2"}
Timer == "timer"
Cyclers == Callers \cup {Timer}
BotProcs == {"bot"}
Clients == {"c1", "c2"}
Procs == Cyclers \cup BotProcs \cup Clients
NoOwner == "none"
NoVideo == 0
NoChat == 0

SubTypeAll == "ALL"
SubTypeActress == "ACTRESS"
SubTypeTag == "TAG"
PushStatusSuccess == "SUCCESS"
PushStatusFailed == "FAILED"

\* ---------------------------------------------------------------- strings
\* a string is a sequence of one-character strings
LowerOf(c) ==
  CASE c = "A" -> "a"
    [] c = "B" -> "b"
    [] c = "X" -> "x"
    [] OTHER -> c
ToLower(s) == [i \in 1..Len(s) |-> LowerOf(s[i])]
Contains(s, sub) ==
  \E i \in 1..(Len(s) + 1) :
     /\ i + Len(sub) - 1 <= Len(s)
     /\ SubSeq(s, i, i + Len(sub) - 1) = sub
\* mutant: the comparison keeps the case of the letters
containsSameCase(s, substr) == Contains(s, substr)
containsIgnoreCase(s, substr) == Contains(ToLower(s), ToLower(substr))

\* the actresses and tags fields of the video with a given code
Actresses(v) == IF v = 1 THEN <<"A", "b">> ELSE <<"b">>
Tags(v) == IF v = 1 THEN <<"x">> ELSE <<"X", "y">>

\* store.matchesSubscription, on the actresses and tags of its video
matchesFields(actresses, tags, sub) ==
  CASE sub.type = SubTypeAll -> TRUE
    [] sub.type = SubTypeActress -> containsIgnoreCase(actresses, sub.keyword)
    [] sub.type = SubTypeTag -> containsIgnoreCase(tags, sub.keyword)
    [] OTHER -> FALSE

\* store.matchesSubscription
matchesSubscription(v, sub) == matchesFields(Actresses(v), Tags(v), sub)

\* strings.TrimSpace
RECURSIVE TrimLeft(_)
TrimLeft(s) == IF s # <<>> /\ Head(s) = " " THEN TrimLeft(Tail(s)) ELSE s
RECURSIVE TrimRight(_)
TrimRight(s) ==
  IF s # <<>> /\ s[Len(s)] = " " THEN TrimRight(SubSeq(s, 1, Len(s) - 1)) ELSE s
TrimSpace(s) == TrimRight(TrimLeft(s))

\* DetermineSubscriptionType without the TrimSpace of its argument
DetermineSubscriptionTypeNoTrim(args) ==
  IF args = <<>> THEN [type |-> SubTypeAll, keyword |-> <<>>]
  ELSE IF Head(args) = "#" THEN [type |-> SubTypeTag, keyword |-> Tail(args)]
  ELSE [type |-> SubTypeActress, keyword |-> args]

\* bot.DetermineSubscriptionType
DetermineSubscriptionType(args) ==
  LET a == TrimSpace(args) IN
  IF a = <<>> THEN [type |-> SubTypeAll, keyword |-> <<>>]
  ELSE IF Head(a) = "#" THEN [type |-> SubTypeTag, keyword |-> Tail(a)]
  ELSE [type |-> SubTypeActress, keyword |-> a]

\* arguments of the /subscribe command
SubscribeArgs == {<<>>, <<"A", "B">>, <<"#", "x">>}

\* ---------------------------------------------------------------- state
VARIABLES
  mu,          \* Scheduler.mu: the process holding it, or NoOwner
  running,     \* Scheduler.running
  pc,          \* position of every process
  loc,         \* local variables of every process
  accepted,    \* TryRun calls that returned true
  rejected,    \* TryRun calls that returned false
  crawls,      \* CrawlNewVideos invocations made from RunOnce, by kind of trigger
  ticks,       \* timer firings so far
  enabled,     \* CrawlerConfig.Enabled
  stopped,     \* Scheduler.stopCh closed
  ctxDone,     \* the context passed to the scheduler and handlers is cancelled
  videos,      \* videos table: code -> "absent" | "unpushed" | "pushed"
  order,       \* codes of the videos table in creation order
  subs,        \* subscriptions table, in creation order
  pushRecords, \* push_records table: a bag of [video, chat, status]
  sent,        \* transport: bag of [video, chat] messages delivered
  media,       \* per code: whether PreviewURL / CoverURL are non-empty
  site,        \* the codes the crawled site lists
  logged,      \* error messages logged by TryRun and executeCrawl
  botCrawls,   \* /crawl goroutines started
  pushes,      \* per client: PushVideoToChat calls made
  call,        \* the last call made on the store directly, with its result
  crawl,       \* the crawl operation in progress
  eval,        \* the call of a function on its own: its arguments and its result
  sess,        \* the crawler's session: cookies, rate limiter, browser, and the
               \* harvest operations that share them
  loop         \* the timer loop's channels and the caller of Scheduler.Stop

schedVars == <<mu, running, accepted, rejected, crawls, ticks, enabled, stopped>>
storeVars == <<videos, order, subs, pushRecords>>
envVars == <<media, site>>
callVars == <<call, crawl, eval, sess>>
vars == <<mu, running, pc, loc, accepted, rejected, crawls, ticks,
          enabled, stopped, ctxDone, videos, order, subs, pushRecords, sent,
          media, site, logged, botCrawls, pushes, call, crawl, eval, sess, loop>>

\* no subscription
NoSub == [chat |-> NoChat, type |-> "", keyword |-> <<>>, enabled |-> FALSE]
\* no direct store call was made yet
NoCall == [op |-> "none", rows |-> <<>>, sub |-> NoSub, saved |-> 0,
           duplicates |-> 0, err |-> FALSE]
\* no crawl operation was started yet; of a crawl in progress: the page and
\* videos accumulated, the position in the loop, the state of fetchWithRetry
\* for the current page (attempt, fetches made, backoff waits in seconds,
\* result), and what happened so far (pages fetched, pages rendered by the
\* browser, pages whose plain fetch gave zero videos or failed)
NoCrawl == [kind |-> "none", limit |-> 0, page |-> 0, maxPages |-> 0,
            count |-> 0, phase |-> "idle", attempt |-> 0, tries |-> 0,
            waits |-> <<>>, fres |-> "none", cancelSeen |-> FALSE,
            fetched |-> <<>>, renders |-> <<>>, zero |-> {}, failed |-> {},
            done |-> FALSE, err |-> FALSE]

\* the harvest operations that run side by side on one HTTPCrawler
Harvesters == {"h1", "h2"}
\* an HTTPCrawler as NewHTTPCrawler returns it, with no operation started:
\* cookieMu and cookieInitTime, browserMu and browser, the Browser's mu and
\* closed; and what happened so far: whether the cookies were cold or stale
\* at the start, the harvesters of the warm-up fetches,
\* rate-limiter tokens acquired, requests sent, sessions launched, sessions
\* released, uses of the session, harvesters with a page open, calls made on
\* the Browser directly and the last of them
NoSess == [cookieMu |-> NoOwner, cookieInitTime |-> "zero", cold |-> TRUE,
           warmLog |-> <<>>,
           browserMu |-> NoOwner, browser |-> FALSE, bmu |-> NoOwner,
           closed |-> FALSE, sessions |-> 0, released |-> 0, touched |-> 0,
           rendering |-> {}, tokens |-> 0, requests |-> 0, calls |-> 0,
           last |-> [op |-> "none", err |-> "none"],
           pc |-> [h \in Harvesters |-> "idle"],
           i |-> [h \in Harvesters |-> 0],
           warmFails |-> [h \in Harvesters |-> 0],
           fetches |-> [h \in Harvesters |-> 0],
           res |-> [h \in Harvesters |-> "none"]]

\* the timer loop before Start: ticker.C is empty and Stop was not called;
\* at is where run() was when stopCh was closed
NoLoop == [tick |-> FALSE, stop |-> "none", at |-> "none"]

\* no function was called on its own
NoEval == [fn |-> "none", done |-> FALSE]

InitLoc ==
  [batch |-> {}, queue |-> <<>>, video |-> NoVideo, subq |-> <<>>,
   matched |-> {}, pushedChats |-> {}, called |-> <<>>, chat |-> NoChat,
   attempts |-> <<>>, sendErr |-> FALSE, ret |-> "none"]

\* the part of the state every specification starts from
InitCommon ==
  /\ mu = NoOwner
  /\ running = FALSE
  /\ loc = [p \in Procs |-> InitLoc]
  /\ accepted = 0
  /\ rejected = 0
  /\ crawls = [k \in {"manual", "timer"} |-> 0]
  /\ ticks = 0
  /\ stopped = FALSE
  /\ ctxDone = FALSE
  /\ pushRecords = EmptyBag
  /\ sent = EmptyBag
  /\ botCrawls = 0
  /\ pushes = [p \in Clients |-> 0]
  /\ logged = {}
  /\ call = NoCall
  /\ crawl = NoCrawl
  /\ loop = NoLoop

\* ---------------------------------------------------------------- helpers
RECURSIVE Perms(_)
\* all orders in which a batch can be listed
Perms(S) ==
  IF S = {} THEN {<<>>}
  ELSE UNION {{<<x>> \o t : t \in Perms(S \ {x})} : x \in S}

Range(s) == {s[i] : i \in 1..Len(s)}

RECURSIVE Reverse(_)
Reverse(s) == IF s = <<>> THEN <<>> ELSE Reverse(Tail(s)) \o <<Head(s)>>

RECURSIVE SelectUnpushed(_, _)
SelectUnpushed(s, tbl) ==
  IF s = <<>> THEN <<>>
  ELSE IF tbl[Head(s)] = "unpushed"
       THEN <<Head(s)>> \o SelectUnpushed(Tail(s), tbl)
       ELSE SelectUnpushed(Tail(s), tbl)

RECURSIVE InsertAll(_, _, _)
\* INSERT ... ON CONFLICT (code) DO NOTHING, row by row: [videos, order, saved]
InsertAll(s, tbl, ord) ==
  IF s = <<>> THEN [videos |-> tbl, order |-> ord, saved |-> 0]
  ELSE IF tbl[Head(s)] = "absent"
       THEN LET r == InsertAll(Tail(s), [tbl EXCEPT ![Head(s)] = "unpushed"],
                               Append(ord, Head(s)))
            IN [r EXCEPT !.saved = @ + 1]
       ELSE InsertAll(Tail(s), tbl, ord)

\* a store call fails when its context is cancelled, and may fail otherwise
StoreOK == IF ctxDone THEN {FALSE} ELSE BOOLEAN

\* mutant: the query has no WHERE pushed = false
GetVideosWithAnyFlag == Reverse(order)

\* MySQLStore.GetUnpushedVideos: WHERE pushed = false ORDER BY created_at DESC
GetUnpushedVideos == SelectUnpushed(Reverse(order), videos)

RECURSIVE MatchingChats(_, _)
\* MySQLStore.GetMatchingSubscriptions, reduced to the ChatID of each row
MatchingChats(v, s) ==
  IF s = <<>> THEN <<>>
  ELSE IF Head(s).enabled /\ matchesSubscription(v, Head(s))
       THEN <<Head(s).chat>> \o MatchingChats(v, Tail(s))
       ELSE MatchingChats(v, Tail(s))
GetMatchingSubscriptions(v) == MatchingChats(v, subs)

\* mutant: the history query filters on the wrong status
HasPushedWrongStatus(v, c) ==
  CopiesIn([video |-> v, chat |-> c, status |-> PushStatusFailed], pushRecords) > 0

\* MySQLStore.HasPushed: a SUCCESS row exists for (video, chat)
HasPushed(v, c) ==
  CopiesIn([video |-> v, chat |-> c, status |-> PushStatusSuccess], pushRecords) > 0

\* the kind of trigger a cycle was started by
TriggerKind(p) == IF p = Timer THEN "timer" ELSE "manual"

\* mutant: the lock is taken without looking at its state
TryLockAlways == TRUE

\* sync.Mutex.TryLock succeeds iff the mutex is free
TryLockOK == mu = NoOwner

\* the three sends of PushVideoToChat: the sends attempted and the final error
SendChain(preview, cover, okVideo, okPhoto, okText) ==
  LET a1 == IF preview THEN <<"video">> ELSE <<>>
      e1 == preview /\ ~okVideo
  IN IF e1 \/ ~preview
     THEN IF cover
          THEN [attempts |-> a1 \o <<"photo">>, err |-> ~okPhoto]
          ELSE [attempts |-> a1 \o <<"text">>, err |-> ~okText]
     ELSE [attempts |-> a1, err |-> FALSE]

\* ---------------------------------------------------------------- scheduler
\* Scheduler.Start, which main calls once, before it waits for the signal
\* that makes it call Stop: wg.Add(1) and go s.run(ctx) when Enabled
Start ==
  /\ pc[Timer] = "off"
  /\ enabled
  /\ loop.stop = "none"
  /\ pc' = [pc EXCEPT ![Timer] = "delay"]
  /\ UNCHANGED <<logged, schedVars, storeVars, loc, ctxDone, sent, envVars, loop, callVars, botCrawls, pushes>>

\* where run() is: inside executeCrawl, or off, delay, tick, exited
LoopAt ==
  IF pc[Timer] \in {"off", "delay", "tick", "exited"} THEN pc[Timer] ELSE "cycle"

\* mutant: Stop cancels the context of the cycle as well
StopCancels ==
  /\ ~stopped
  /\ stopped' = TRUE
  /\ ctxDone' = TRUE
  /\ loop' = [loop EXCEPT !.stop = "waiting", !.at = LoopAt]
  /\ UNCHANGED <<logged, mu, running, pc, loc, accepted, rejected, crawls, ticks,
                 enabled, storeVars, sent, envVars, callVars, botCrawls, pushes>>

\* Scheduler.Stop: close(stopCh); the caller goes on to s.wg.Wait()
Stop ==
  /\ ~stopped
  /\ stopped' = TRUE
  /\ loop' = [loop EXCEPT !.stop = "waiting", !.at = LoopAt]
  /\ UNCHANGED <<logged, mu, running, pc, loc, accepted, rejected, crawls, ticks,
                 enabled, ctxDone, storeVars, sent, envVars, callVars, botCrawls, pushes>>

\* Scheduler.Stop: s.wg.Wait() returns once run() has called wg.Done(), or at
\* once when Start added nothing to the group
StopReturn ==
  /\ loop.stop = "waiting"
  /\ pc[Timer] \in {"off", "exited"}
  /\ loop' = [loop EXCEPT !.stop = "returned"]
  /\ UNCHANGED <<logged, schedVars, storeVars, pc, loc, ctxDone, sent, envVars, callVars, botCrawls, pushes>>

\* the caller cancels the context
Cancel ==
  /\ ~ctxDone
  /\ ctxDone' = TRUE
  /\ UNCHANGED <<logged, schedVars, storeVars, pc, loc, sent, envVars, loop, callVars, botCrawls, pushes>>

\* time.Ticker: a tick that comes while run() is inside executeCrawl stays in
\* the one-slot buffer of ticker.C. The ticker is created after the first
\* executeCrawl has returned
TickPending ==
  /\ LoopAt = "cycle"
  /\ ticks >= 2
  /\ ~loop.tick
  /\ loop' = [loop EXCEPT !.tick = TRUE]
  /\ UNCHANGED <<logged, schedVars, storeVars, pc, loc, ctxDone, sent, envVars, callVars, botCrawls, pushes>>

\* mutant: the select takes the timer case although the loop was parked when
\* the stop channel was closed or the context was cancelled
TimerFireUnparked(n) ==
  /\ pc[Timer] \in {"delay", "tick"}
  /\ ticks < n
  /\ ticks' = ticks + 1
  /\ loop' = [loop EXCEPT !.tick = FALSE]
  /\ IF TryLockOK
     THEN /\ mu' = Timer
          /\ pc' = [pc EXCEPT ![Timer] = "locked"]
     ELSE /\ pc' = [pc EXCEPT ![Timer] = "tick"]
          /\ UNCHANGED mu
  /\ UNCHANGED <<logged, running, loc, accepted, rejected, crawls, enabled, stopped,
                 ctxDone, storeVars, sent, envVars, callVars, botCrawls, pushes>>

\* Scheduler.run: the select takes the time.After or ticker.C case and calls
\* executeCrawl, at most n times. A loop parked in the select is woken by
\* the first channel that becomes ready; a loop that comes to the select
\* with several channels ready takes any one of them
TimerFireWithin(n) ==
  /\ pc[Timer] \in {"delay", "tick"}
  /\ ticks < n
  /\ loop.tick \/ ~(stopped \/ ctxDone)
  /\ ticks' = ticks + 1
  /\ loop' = [loop EXCEPT !.tick = FALSE]
  /\ IF TryLockOK
     THEN /\ mu' = Timer
          /\ pc' = [pc EXCEPT ![Timer] = "locked"]
     ELSE /\ pc' = [pc EXCEPT ![Timer] = "tick"]
          /\ UNCHANGED mu
  /\ UNCHANGED <<logged, running, loc, accepted, rejected, crawls, enabled, stopped,
                 ctxDone, storeVars, sent, envVars, callVars, botCrawls, pushes>>

TimerFire == TimerFireWithin(MaxTicks)

\* Scheduler.run: the select takes the stopCh or ctx.Done() case
TimerExit ==
  /\ pc[Timer] \in {"delay", "tick"}
  /\ stopped \/ ctxDone
  /\ pc' = [pc EXCEPT ![Timer] = "exited"]
  /\ UNCHANGED <<logged, schedVars, storeVars, loc, ctxDone, sent, envVars, loop, callVars, botCrawls, pushes>>

\* mutant: TryRun reports true also when the lock was held
TryRunAlwaysTrue(p) ==
  /\ pc[p] = "idle"
  /\ accepted + rejected + Cardinality({q \in Callers : pc[q] # "idle"}) < MaxCalls
  /\ IF TryLockOK
     THEN /\ mu' = p
          /\ pc' = [pc EXCEPT ![p] = "locked"]
          /\ UNCHANGED accepted
     ELSE /\ accepted' = accepted + 1
          /\ UNCHANGED <<mu, pc>>
  /\ UNCHANGED <<logged, running, loc, rejected, crawls, ticks, enabled, stopped,
                 ctxDone, storeVars, sent, envVars, loop, callVars, botCrawls, pushes>>

\* mutant: the deferred running.Store(false) is registered before the TryLock
TryRunDeferFirst(p) ==
  /\ pc[p] = "idle"
  /\ accepted + rejected + Cardinality({q \in Callers : pc[q] # "idle"}) < MaxCalls
  /\ IF TryLockOK
     THEN /\ mu' = p
          /\ pc' = [pc EXCEPT ![p] = "locked"]
          /\ UNCHANGED <<rejected, running>>
     ELSE /\ rejected' = rejected + 1
          /\ running' = FALSE
          /\ UNCHANGED <<mu, pc>>
  /\ UNCHANGED <<logged, loc, accepted, crawls, ticks, enabled, stopped,
                 ctxDone, storeVars, sent, envVars, loop, callVars, botCrawls, pushes>>

\* Scheduler.TryRun, up to the TryLock
TryRun(p) ==
  /\ pc[p] = "idle"
  /\ accepted + rejected + Cardinality({q \in Callers : pc[q] # "idle"}) < MaxCalls
  /\ IF TryLockOK
     THEN /\ mu' = p
          /\ pc' = [pc EXCEPT ![p] = "locked"]
          /\ UNCHANGED rejected
     ELSE /\ rejected' = rejected + 1
          /\ UNCHANGED <<mu, pc>>
  /\ UNCHANGED <<logged, running, loc, accepted, crawls, ticks, enabled, stopped,
                 ctxDone, storeVars, sent, envVars, loop, callVars, botCrawls, pushes>>

\* mutant: the running flag is not set
SetRunningMissing(p) ==
  /\ pc[p] = "locked"
  /\ pc' = [pc EXCEPT ![p] = "crawl"]
  /\ UNCHANGED <<logged, mu, running, loc, accepted, rejected, crawls, ticks, enabled,
                 stopped, ctxDone, storeVars, sent, envVars, loop, callVars, botCrawls, pushes>>

\* s.running.Store(true)
SetRunning(p) ==
  /\ pc[p] = "locked"
  /\ running' = TRUE
  /\ pc' = [pc EXCEPT ![p] = "crawl"]
  /\ UNCHANGED <<logged, mu, loc, accepted, rejected, crawls, ticks, enabled,
                 stopped, ctxDone, storeVars, sent, envVars, loop, callVars, botCrawls, pushes>>

\* RunOnce: s.crawler.CrawlNewVideos is invoked
CrawlCall(p) ==
  /\ pc[p] = "crawl"
  /\ crawls' = [crawls EXCEPT ![TriggerKind(p)] = @ + 1]
  /\ pc' = [pc EXCEPT ![p] = "crawling"]
  /\ UNCHANGED <<logged, mu, running, loc, accepted, rejected, ticks, enabled,
                 stopped, ctxDone, storeVars, sent, envVars, loop, callVars, botCrawls, pushes>>

\* mutant: on a harvest error the trigger returns without its deferred
\* running.Store(false) and Unlock
CrawlReturnNoDefer(p) ==
  /\ pc[p] = "crawling"
  /\ \E vs \in SUBSET site, err \in (IF ctxDone THEN BOOLEAN ELSE {FALSE}) :
       IF err
       THEN /\ pc' = [pc EXCEPT ![p] = IF p \in Callers THEN "idle" ELSE "tick"]
            /\ logged' = logged \cup {"crawl failed"}
            /\ accepted' = IF p \in Callers THEN accepted + 1 ELSE accepted
            /\ UNCHANGED loc
       ELSE IF vs # {}
       THEN /\ pc' = [pc EXCEPT ![p] = "save"]
            /\ loc' = [loc EXCEPT ![p].batch = vs]
            /\ UNCHANGED <<logged, accepted>>
       ELSE /\ pc' = [pc EXCEPT ![p] = "sweep"]
            /\ UNCHANGED <<loc, logged, accepted>>
  /\ UNCHANGED <<mu, running, rejected, crawls, ticks, enabled, stopped,
                 storeVars, ctxDone, sent, envVars, loop, callVars, botCrawls, pushes>>

\* RunOnce: CrawlNewVideos returns (an error only for a cancelled context)
CrawlReturn(p) ==
  /\ pc[p] = "crawling"
  /\ \E vs \in SUBSET site, err \in (IF ctxDone THEN BOOLEAN ELSE {FALSE}) :
       IF err
       THEN /\ pc' = [pc EXCEPT ![p] = "unrun"]
            /\ logged' = logged \cup {"crawl failed"}
            /\ UNCHANGED loc
       ELSE IF vs # {}
       THEN /\ pc' = [pc EXCEPT ![p] = "save"]
            /\ loc' = [loc EXCEPT ![p].batch = vs]
            /\ UNCHANGED logged
       ELSE /\ pc' = [pc EXCEPT ![p] = "sweep"]
            /\ UNCHANGED <<loc, logged>>
  /\ UNCHANGED <<schedVars, storeVars, ctxDone, sent, envVars, loop, callVars, botCrawls, pushes>>

\* RunOnce: s.store.SaveVideos(videos); an error is logged
SaveBatch(p) ==
  /\ pc[p] = "save"
  /\ \E ok \in StoreOK, s \in Perms(loc[p].batch) :
       IF ok
       THEN LET r == InsertAll(s, videos, order) IN
            /\ videos' = r.videos
            /\ order' = r.order
       ELSE UNCHANGED <<videos, order>>
  /\ loc' = [loc EXCEPT ![p].batch = {}]
  /\ pc' = [pc EXCEPT ![p] = "sweep"]
  /\ UNCHANGED <<logged, schedVars, subs, pushRecords, ctxDone, sent, envVars, loop, callVars, botCrawls, pushes>>

\* PushUnpushedVideos: s.store.GetUnpushedVideos
SweepStart(p) ==
  /\ pc[p] = "sweep"
  /\ \E ok \in StoreOK :
       IF ok
       THEN /\ loc' = [loc EXCEPT ![p].queue = GetUnpushedVideos]
            /\ pc' = [pc EXCEPT ![p] = "video"]
       ELSE /\ pc' = [pc EXCEPT ![p] = "unrun"]
            /\ UNCHANGED loc
  /\ UNCHANGED <<logged, schedVars, storeVars, ctxDone, sent, envVars, loop, callVars, botCrawls, pushes>>

\* PushUnpushedVideos: the loop is over, RunOnce returns
SweepEnd(p) ==
  /\ pc[p] = "video"
  /\ loc[p].queue = <<>>
  /\ pc' = [pc EXCEPT ![p] = "unrun"]
  /\ UNCHANGED <<logged, schedVars, storeVars, loc, ctxDone, sent, envVars, loop, callVars, botCrawls, pushes>>

\* PushVideoToSubscribers: s.store.GetMatchingSubscriptions(video)
NextVideo(p) ==
  /\ pc[p] = "video"
  /\ loc[p].queue # <<>>
  /\ \E ok \in StoreOK :
       IF ok
       THEN /\ loc' = [loc EXCEPT ![p].video = Head(loc[p].queue),
                                  ![p].subq = GetMatchingSubscriptions(Head(loc[p].queue)),
                                  ![p].matched = Range(GetMatchingSubscriptions(Head(loc[p].queue))),
                                  ![p].pushedChats = {},
                                  ![p].called = <<>>]
            /\ pc' = [pc EXCEPT ![p] = "subs"]
       ELSE /\ loc' = [loc EXCEPT ![p].queue = Tail(@)]
            /\ UNCHANGED pc
  /\ UNCHANGED <<logged, schedVars, storeVars, ctxDone, sent, envVars, loop, callVars, botCrawls, pushes>>

\* PushVideoToSubscribers: the chat of this subscription was already pushed to
SkipChat(p) ==
  /\ pc[p] = "subs"
  /\ loc[p].subq # <<>>
  /\ Head(loc[p].subq) \in loc[p].pushedChats
  /\ loc' = [loc EXCEPT ![p].subq = Tail(@)]
  /\ UNCHANGED <<logged, schedVars, storeVars, pc, ctxDone, sent, envVars, loop, callVars, botCrawls, pushes>>

\* PushUnpushedVideos: PushVideoToSubscribers returned, s.store.MarkAsPushed
MarkAsPushed(p) ==
  /\ pc[p] = "subs"
  /\ loc[p].subq = <<>>
  /\ \E ok \in StoreOK :
       IF ok
       THEN videos' = [videos EXCEPT ![loc[p].video] = "pushed"]
       ELSE UNCHANGED videos
  /\ loc' = [loc EXCEPT ![p].queue = Tail(@), ![p].video = NoVideo,
                        ![p].matched = {}, ![p].pushedChats = {},
                        ![p].called = <<>>]
  /\ pc' = [pc EXCEPT ![p] = "video"]
  /\ UNCHANGED <<logged, schedVars, order, subs, pushRecords, ctxDone, sent, envVars, loop, callVars,
                 botCrawls, pushes>>

\* deferred s.running.Store(false)
ClearRunning(p) ==
  /\ pc[p] = "unrun"
  /\ running' = FALSE
  /\ loc' = [loc EXCEPT ![p] = InitLoc]
  /\ pc' = [pc EXCEPT ![p] = "unlock"]
  /\ UNCHANGED <<logged, mu, accepted, rejected, crawls, ticks, enabled, stopped,
                 ctxDone, storeVars, sent, envVars, loop, callVars, botCrawls, pushes>>

\* deferred s.mu.Unlock(); TryRun returns true, executeCrawl returns to the loop
Unlock(p) ==
  /\ pc[p] = "unlock"
  /\ mu' = NoOwner
  /\ IF p \in Callers
     THEN /\ accepted' = accepted + 1
          /\ pc' = [pc EXCEPT ![p] = "idle"]
     ELSE /\ pc' = [pc EXCEPT ![p] = "tick"]
          /\ UNCHANGED accepted
  /\ UNCHANGED <<logged, running, loc, rejected, crawls, ticks, enabled, stopped,
                 ctxDone, storeVars, sent, envVars, loop, callVars, botCrawls, pushes>>

\* ---------------------------------------------------------------- delivery
\* what the caller of PushVideoToChat does with its result: the sweep marks
\* the chat as pushed on nil and moves to the next subscription, a direct
\* client keeps the result
PushReturn(p, l, err) ==
  IF p \in Cyclers
  THEN [l EXCEPT !.subq = Tail(@),
                 !.pushedChats = IF err THEN @ ELSE @ \cup {l.subq[1]},
                 !.chat = NoChat, !.attempts = <<>>, !.sendErr = FALSE]
  ELSE [l EXCEPT !.attempts = <<>>, !.sendErr = FALSE,
                 !.ret = IF err THEN "err" ELSE "nil"]
AfterPush(p) == IF p \in Cyclers THEN "subs" ELSE "idle"

\* PushVideoToChat, s.store.HasPushed: the first statement of a call; a sweep
\* notes in called the chats it has invoked PushVideoToChat for
PushCheck(p, v, c) ==
  LET l == [loc[p] EXCEPT !.video = v, !.chat = c,
                          !.called = IF p \in Cyclers THEN Append(@, c) ELSE @]
  IN \E ok \in StoreOK :
       IF ~ok
       THEN /\ loc' = [loc EXCEPT ![p] = PushReturn(p, l, TRUE)]
            /\ pc' = [pc EXCEPT ![p] = AfterPush(p)]
       ELSE IF HasPushed(v, c)
       THEN /\ loc' = [loc EXCEPT ![p] = PushReturn(p, l, FALSE)]
            /\ pc' = [pc EXCEPT ![p] = AfterPush(p)]
       ELSE /\ loc' = [loc EXCEPT ![p] = [l EXCEPT !.ret = "none"]]
            /\ pc' = [pc EXCEPT ![p] = "push_wait"]

\* PushVideoToSubscribers: PushVideoToChat is called for the next subscription
SweepPush(p) ==
  /\ pc[p] = "subs"
  /\ loc[p].subq # <<>>
  /\ Head(loc[p].subq) \notin loc[p].pushedChats
  /\ PushCheck(p, loc[p].video, Head(loc[p].subq))
  /\ UNCHANGED <<logged, schedVars, storeVars, ctxDone, sent, envVars, loop, callVars, botCrawls, pushes>>

\* mutant: the wait for a send token ignores the cancellation of the context
PushWaitUncancellable(p) ==
  /\ pc[p] = "push_wait"
  /\ ~ctxDone
  /\ pc' = [pc EXCEPT ![p] = "push_send"]
  /\ UNCHANGED <<logged, loc, schedVars, storeVars, ctxDone, sent, envVars, loop, callVars, botCrawls, pushes>>

\* PushVideoToChat: s.limiter.Wait(ctx)
PushWait(p) ==
  /\ pc[p] = "push_wait"
  /\ IF ctxDone
     THEN /\ loc' = [loc EXCEPT ![p] = PushReturn(p, @, TRUE)]
          /\ pc' = [pc EXCEPT ![p] = AfterPush(p)]
     ELSE /\ pc' = [pc EXCEPT ![p] = "push_send"]
          /\ UNCHANGED loc
  /\ UNCHANGED <<logged, schedVars, storeVars, ctxDone, sent, envVars, loop, callVars, botCrawls, pushes>>

\* PushVideoToChat: SendVideo, SendPhoto, SendMarkdown
PushSend(p) ==
  /\ pc[p] = "push_send"
  /\ \E okVideo \in BOOLEAN, okPhoto \in BOOLEAN, okText \in BOOLEAN :
       LET m == media[loc[p].video]
           r == SendChain(m.preview, m.cover, okVideo, okPhoto, okText)
       IN /\ loc' = [loc EXCEPT ![p].attempts = r.attempts, ![p].sendErr = r.err]
          /\ sent' = IF r.err THEN sent
                     ELSE sent (+) SetToBag({[video |-> loc[p].video, chat |-> loc[p].chat]})
  /\ pc' = [pc EXCEPT ![p] = "push_record"]
  /\ UNCHANGED <<logged, schedVars, storeVars, ctxDone, envVars, loop, callVars, botCrawls, pushes>>

\* mutant: the record is written with status SUCCESS whatever the send result
PushRecordAlwaysSuccess(p) ==
  /\ pc[p] = "push_record"
  /\ \E ok \in StoreOK :
       IF ok
       THEN pushRecords' = pushRecords (+) SetToBag({
              [video |-> loc[p].video, chat |-> loc[p].chat,
               status |-> PushStatusSuccess]})
       ELSE UNCHANGED pushRecords
  /\ loc' = [loc EXCEPT ![p] = PushReturn(p, @, loc[p].sendErr)]
  /\ pc' = [pc EXCEPT ![p] = AfterPush(p)]
  /\ UNCHANGED <<logged, schedVars, videos, order, subs, ctxDone, sent, envVars, loop, callVars, botCrawls, pushes>>

\* PushVideoToChat: s.store.RecordPush(record), return sendErr
PushRecord(p) ==
  /\ pc[p] = "push_record"
  /\ \E ok \in StoreOK :
       IF ok
       THEN pushRecords' = pushRecords (+) SetToBag({
              [video |-> loc[p].video, chat |-> loc[p].chat,
               status |-> IF loc[p].sendErr THEN PushStatusFailed
                          ELSE PushStatusSuccess]})
       ELSE UNCHANGED pushRecords
  /\ loc' = [loc EXCEPT ![p] = PushReturn(p, @, loc[p].sendErr)]
  /\ pc' = [pc EXCEPT ![p] = AfterPush(p)]
  /\ UNCHANGED <<logged, schedVars, videos, order, subs, ctxDone, sent, envVars, loop, callVars, botCrawls, pushes>>

\* a direct client of push.Service calls PushVideoToChat(video, chatID)
ClientPush(p) ==
  /\ pc[p] = "idle"
  /\ pushes[p] < MaxPushes
  /\ pushes' = [pushes EXCEPT ![p] = @ + 1]
  /\ \E v \in Videos, c \in Chats :
       /\ videos[v] # "absent"
       /\ PushCheck(p, v, c)
  /\ UNCHANGED <<logged, schedVars, storeVars, ctxDone, sent, envVars, loop, callVars, botCrawls>>

\* ---------------------------------------------------------------- bot
\* Handler.handleCrawl: a valid /crawl command starts the crawl goroutine,
\* which calls the crawler
BotCrawl(p) ==
  /\ pc[p] = "idle"
  /\ botCrawls < MaxBotCrawls
  /\ botCrawls' = botCrawls + 1
  /\ \E kind \in {"actor", "code", "search", "new"} : loc' = [loc EXCEPT ![p].ret = kind]
  /\ pc' = [pc EXCEPT ![p] = "crawling"]
  /\ UNCHANGED <<logged, schedVars, storeVars, ctxDone, sent, envVars, loop, callVars, pushes>>

\* the crawl goroutine: the crawler returns
BotCrawlReturn(p) ==
  /\ pc[p] = "crawling"
  /\ \E vs \in SUBSET site, err \in BOOLEAN :
       /\ loc[p].ret = "code" => Cardinality(vs) <= 1
       /\ (loc[p].ret = "new" /\ ~ctxDone) => ~err
       /\ IF err \/ vs = {}
          THEN /\ pc' = [pc EXCEPT ![p] = "idle"]
               /\ loc' = [loc EXCEPT ![p] = InitLoc]
          ELSE /\ pc' = [pc EXCEPT ![p] = "saving"]
               /\ loc' = [loc EXCEPT ![p].batch = vs]
  /\ UNCHANGED <<logged, schedVars, storeVars, ctxDone, sent, envVars, loop, callVars, botCrawls, pushes>>

\* the crawl goroutine: h.store.SaveVideos(videos)
BotSave(p) ==
  /\ pc[p] = "saving"
  /\ \E ok \in StoreOK, s \in Perms(loc[p].batch) :
       IF ok
       THEN LET r == InsertAll(s, videos, order) IN
            /\ videos' = r.videos
            /\ order' = r.order
       ELSE UNCHANGED <<videos, order>>
  /\ loc' = [loc EXCEPT ![p] = InitLoc]
  /\ pc' = [pc EXCEPT ![p] = "idle"]
  /\ UNCHANGED <<logged, schedVars, subs, pushRecords, ctxDone, sent, envVars, loop, callVars, botCrawls, pushes>>

RECURSIVE FindSub(_, _, _)
\* index of the first row with this (chat, type, keyword), 0 if none
FindSub(s, row, i) ==
  IF i > Len(s) THEN 0
  ELSE IF s[i].chat = row.chat /\ s[i].type = row.type /\ s[i].keyword = row.keyword
       THEN i
       ELSE FindSub(s, row, i + 1)

\* mutant: a row is inserted without looking for an existing one
CreateSubscriptionAlwaysInsert(s, row) == Append(s, row)

\* MySQLStore.CreateSubscription
CreateSubscription(s, row) ==
  LET i == FindSub(s, row, 1) IN
  IF i # 0 THEN [s EXCEPT ![i].enabled = TRUE] ELSE Append(s, row)

\* Handler.handleSubscribe: DetermineSubscriptionType, store.CreateSubscription
SubscribeFrom(chats, arguments) ==
  \E c \in chats, args \in arguments, ok \in StoreOK :
    LET d == DetermineSubscriptionType(args)
        row == [chat |-> c, type |-> d.type, keyword |-> d.keyword, enabled |-> TRUE]
    IN /\ FindSub(subs, row, 1) = 0 => Len(subs) < MaxSubs
       /\ subs' = IF ok THEN CreateSubscription(subs, row) ELSE subs
       /\ call' = [NoCall EXCEPT !.op = "CreateSubscription", !.sub = row, !.err = ~ok]
       /\ UNCHANGED <<logged, schedVars, videos, order, pushRecords, pc, loc, ctxDone,
                      sent, envVars, loop, crawl, eval, sess, botCrawls, pushes>>

\* /subscribe sent by any chat with any of the arguments
Subscribe == SubscribeFrom(Chats, SubscribeArgs)

RECURSIVE DeleteRows(_, _, _)
\* DELETE FROM subscriptions WHERE chat_id = c [AND type = t AND keyword = k]
DeleteRows(s, c, d) ==
  IF s = <<>> THEN <<>>
  ELSE IF /\ Head(s).chat = c
          /\ d.all \/ (Head(s).type = d.type /\ Head(s).keyword = d.keyword)
       THEN DeleteRows(Tail(s), c, d)
       ELSE <<Head(s)>> \o DeleteRows(Tail(s), c, d)

\* Handler.handleUnsubscribe: store.DeleteAllSubscriptions for empty
\* arguments, store.DeleteSubscription otherwise
Unsubscribe ==
  \E c \in Chats, args \in SubscribeArgs, ok \in StoreOK :
    LET a == TrimSpace(args)
        t == DetermineSubscriptionType(a)
        d == [all |-> a = <<>>, type |-> t.type, keyword |-> t.keyword]
    IN /\ subs' = IF ok THEN DeleteRows(subs, c, d) ELSE subs
       /\ call' = [NoCall EXCEPT
                     !.op = IF d.all THEN "DeleteAllSubscriptions" ELSE "DeleteSubscription",
                     !.sub = [chat |-> c, type |-> t.type, keyword |-> t.keyword,
                              enabled |-> FALSE],
                     !.err = ~ok]
       /\ UNCHANGED <<logged, schedVars, videos, order, pushRecords, pc, loc, ctxDone,
                      sent, envVars, loop, crawl, eval, sess, botCrawls, pushes>>

\* ---------------------------------------------------------------- specifications
MediaOf(v) == IF v = 1 THEN [preview |-> TRUE, cover |-> TRUE]
              ELSE [preview |-> FALSE, cover |-> FALSE]

\* three subscriptions: every video to chat 1, tag "x" to chat 2, actress
\* "ab" to chat 1 again
ThreeSubs ==
  << [chat |-> 1, type |-> SubTypeAll, keyword |-> <<>>, enabled |-> TRUE],
     [chat |-> 2, type |-> SubTypeTag, keyword |-> <<"x">>, enabled |-> TRUE],
     [chat |-> 1, type |-> SubTypeActress, keyword |-> <<"a", "b">>, enabled |-> TRUE] >>

\* the scheduler with its timer loop and two manual callers
Init ==
  /\ InitCommon
  /\ eval = NoEval
  /\ sess = NoSess
  /\ enabled \in BOOLEAN
  /\ pc = [p \in Procs |-> IF p = Timer THEN "off" ELSE "idle"]
  /\ videos = [v \in Videos |-> "absent"]
  /\ order = <<>>
  /\ subs = ThreeSubs
  /\ media = [v \in Videos |-> MediaOf(v)]
  /\ site = {1}

\* one harvest-and-deliver cycle, step by step
Cycle(p) ==
  \/ SetRunning(p)
  \/ CrawlCall(p)
  \/ CrawlReturn(p)
  \/ SaveBatch(p)
  \/ SweepStart(p)
  \/ SweepEnd(p)
  \/ NextVideo(p)
  \/ SkipChat(p)
  \/ SweepPush(p)
  \/ PushWait(p)
  \/ PushSend(p)
  \/ PushRecord(p)
  \/ MarkAsPushed(p)
  \/ ClearRunning(p)
  \/ Unlock(p)

Next ==
  \/ Start
  \/ Stop
  \/ Cancel
  \/ TimerFire
  \/ TimerExit
  \/ \E p \in Callers : TryRun(p)
  \/ \E p \in Cyclers : Cycle(p)

Spec == Init /\ [][Next]_vars

\* ---------------------------------------------------------------- scheduler properties
\* executeCrawl / TryRun hold the lock from TryLock to the deferred Unlock
CycleStages == {"locked", "crawl", "crawling", "save", "sweep", "video", "subs",
                "push_wait", "push_send", "push_record", "unrun", "unlock"}
\* RunOnce is executing: from the CrawlNewVideos call to its return
RunOnceStages == {"crawling", "save", "sweep", "video", "subs",
                  "push_wait", "push_send", "push_record"}
InCycle(p) == pc[p] \in CycleStages
InRunOnce(p) == pc[p] \in RunOnceStages
\* CrawlNewVideos has been invoked by the call in progress
PastCrawlCall(p) == pc[p] \in RunOnceStages \cup {"unrun", "unlock"}

\* C1: at most one harvest-and-deliver cycle (RunOnce) is executing at any
\* time, whether it was started by TryRun or by the timer loop
C1_SingleFlight ==
  \A p, q \in Cyclers : (InRunOnce(p) /\ InRunOnce(q)) => p = q

\* a manual cycle is executing, and the timer fired meanwhile and was skipped
C1_Witness ==
  /\ \E p \in Callers : InRunOnce(p)
  /\ pc[Timer] = "tick"
  /\ ticks > crawls["timer"]

\* C2: the harvests executed by TryRun calls (CrawlNewVideos invocations) are
\* as many as the TryRun calls that returned true, counting the accepted calls
\* still in progress that have already invoked the crawler
C2_HarvestsEqualAccepted ==
  crawls["manual"] = accepted + Cardinality({p \in Callers : PastCrawlCall(p)})

\* two TryRun calls were made, both have returned, one of them false
C2_Witness ==
  /\ \A p \in Callers : pc[p] = "idle"
  /\ accepted >= 1
  /\ rejected >= 1
  /\ crawls["manual"] = accepted

\* a trigger step: a manual caller enters TryRun, or the timer fires
TriggerStep ==
  \/ rejected' # rejected
  \/ ticks' # ticks
  \/ \E p \in Callers : pc[p] = "idle" /\ pc'[p] # "idle"

\* C3: a trigger that finds the lock held returns at once (TryRun with
\* false, the timer back to its loop) and changes neither the lock, the
\* running flag, the crawler count, the store, the transport nor any cycle
C3_LockedTriggerNoEffect ==
  [][(mu # NoOwner /\ TriggerStep) =>
       /\ UNCHANGED <<mu, running, accepted, crawls, storeVars, sent, loc, logged>>
       /\ \A p \in Callers : pc'[p] = pc[p]
       /\ pc'[Timer] \in {pc[Timer], "tick"}
       /\ (ticks' = ticks => rejected' = rejected + 1)
       /\ (ticks' # ticks => rejected' = rejected)]_vars

\* a TryRun call and a timer firing were both turned away while a cycle runs
C3_Witness ==
  /\ rejected >= 1
  /\ ticks > crawls["timer"]
  /\ pc[Timer] = "tick"
  /\ \E p \in Callers : InRunOnce(p) /\ running

\* C4: when no cycle is in progress (every accepted cycle has finished, also
\* one whose harvest returned an error) the lock is free and IsRunning() is
\* false, so the next TryRun is accepted
C4_IdleAfterCycle ==
  (\A p \in Cyclers : ~InCycle(p)) => (mu = NoOwner /\ ~running)

\* a cycle whose harvest failed has finished and the scheduler is idle
C4_Witness ==
  /\ \A p \in Cyclers : ~InCycle(p)
  /\ "crawl failed" \in logged
  /\ accepted >= 1
  /\ mu = NoOwner

\* C5: IsRunning() is false when no cycle is in progress, true throughout
\* RunOnce (harvest, persist, deliver), and true only while a cycle holds the
\* lock
C5_IsRunningReflectsState ==
  /\ (\A p \in Cyclers : ~InCycle(p)) => ~running
  /\ \A p \in Cyclers : InRunOnce(p) => running
  /\ running => (mu # NoOwner /\ \E p \in Cyclers : InCycle(p) /\ mu = p)

\* IsRunning() is true during the deliver stage of an accepted cycle
C5_Witness ==
  \E p \in Cyclers : pc[p] = "push_send" /\ running /\ mu = p

\* concurrent TryRun calls on a scheduler whose timer loop is not started
InitManual == Init /\ ~enabled

NextManual ==
  \/ Cancel
  \/ \E p \in Callers : TryRun(p)
  \/ \E p \in Callers : Cycle(p)

\* goroutines that are ready to run are eventually run: a caller inside
\* TryRun keeps taking steps
FairSpec == InitManual /\ [][NextManual]_vars /\ \A p \in Callers : WF_vars(Cycle(p))

\* C6: every TryRun call eventually returns, whatever the interleaving with
\* the other callers
C6_TriggersComplete ==
  \A p \in Callers : (pc[p] # "idle") ~> (pc[p] = "idle")

\* one caller is in the deliver stage of its cycle with the context already
\* cancelled, after another TryRun call was turned away and returned
C6_Witness ==
  /\ \E p \in Callers : pc[p] = "push_wait" /\ ctxDone
  /\ rejected >= 1

\* ---------------------------------------------------------------- the bot's /crawl
\* the timer loop together with the goroutine of a /crawl command
InitBot == Init /\ enabled

NextBot ==
  \/ Start
  \/ TimerFire
  \/ Cycle(Timer)
  \/ \E p \in BotProcs : BotCrawl(p)
  \/ \E p \in BotProcs : BotCrawlReturn(p)
  \/ \E p \in BotProcs : BotSave(p)

SpecBot == InitBot /\ [][NextBot]_vars

\* C7: the crawl started by the /crawl command takes part in the scheduler's
\* single-flight lock: it never crawls or saves while a scheduled cycle runs
C7_ManualCrawlExcluded ==
  \A b \in BotProcs :
    pc[b] \in {"crawling", "saving"} => \A p \in Cyclers : ~InRunOnce(p)

\* ---------------------------------------------------------------- direct pushes
\* push.Service used directly: clients call PushVideoToChat on saved videos
InitPush ==
  /\ InitCommon
  /\ eval = NoEval
  /\ sess = NoSess
  /\ enabled = FALSE
  /\ pc = [p \in Procs |-> IF p = Timer THEN "off" ELSE "idle"]
  /\ videos = [v \in Videos |-> "unpushed"]
  /\ order = <<1, 2>>
  /\ subs = <<>>
  /\ media = [v \in Videos |-> MediaOf(v)]
  /\ site = {}

PushSteps(p) ==
  \/ ClientPush(p)
  \/ PushWait(p)
  \/ PushSend(p)
  \/ PushRecord(p)

\* two clients whose calls may overlap
NextPush ==
  \/ Cancel
  \/ \E p \in Clients : PushSteps(p)

SpecPush == InitPush /\ [][NextPush]_vars

\* one client: its calls are sequential
SeqClients == {"c1"}

NextPushSeq ==
  \/ Cancel
  \/ \E p \in SeqClients : PushSteps(p)

SpecPushSeq == InitPush /\ [][NextPushSeq]_vars

SuccessCount(v, c) ==
  CopiesIn([video |-> v, chat |-> c, status |-> PushStatusSuccess], pushRecords)
FailedCount(v, c) ==
  CopiesIn([video |-> v, chat |-> c, status |-> PushStatusFailed], pushRecords)

\* a client enters PushVideoToChat for a pair that already has a SUCCESS record
RepeatCall(p) ==
  /\ pushes'[p] # pushes[p]
  /\ SuccessCount(loc'[p].video, loc'[p].chat) >= 1

\* C8 as claimed: sequential calls leave at most one SUCCESS record per pair,
\* and a call made after the first success returns nil at once, sends nothing
\* and records nothing
C8_RepeatIsNoOpSuccess ==
  /\ [](\A v \in Videos, c \in Chats : SuccessCount(v, c) <= 1)
  /\ [][\A p \in SeqClients : RepeatCall(p) =>
          /\ pc'[p] = "idle"
          /\ loc'[p].ret = "nil"
          /\ UNCHANGED <<pushRecords, sent>>]_vars

\* C8 as amended: sequential calls leave at most one SUCCESS record per pair,
\* and a call made once a SUCCESS record exists returns at once, with nil or
\* with the error of the history check, sends nothing and records nothing
C8_RepeatIsNoOp ==
  /\ [](\A v \in Videos, c \in Chats : SuccessCount(v, c) <= 1)
  /\ [][\A p \in SeqClients : RepeatCall(p) =>
          /\ pc'[p] = "idle"
          /\ loc'[p].ret \in {"nil", "err"}
          /\ UNCHANGED <<pushRecords, sent>>]_vars

\* the second call for a pair returned nil: one SUCCESS record, one message
C8_Witness ==
  \E p \in SeqClients :
    /\ pc[p] = "idle"
    /\ pushes[p] = 2
    /\ loc[p].ret = "nil"
    /\ SuccessCount(loc[p].video, loc[p].chat) = 1
    /\ BagCardinality(pushRecords) = 1
    /\ BagCardinality(sent) = 1

\* C9: the push-record log never holds two SUCCESS records for one
\* (video, chat) pair, also when PushVideoToChat executions overlap
C9_AtMostOneSuccess ==
  \A v \in Videos, c \in Chats : SuccessCount(v, c) <= 1

\* ---------------------------------------------------------------- the sweep
\* C10: the sweep sets pushed=true on a video only when every chat matched for
\* it in that sweep has a SUCCESS record
C10_MarkOnlyWhenAllDelivered ==
  [][\A p \in Cyclers :
       (/\ pc[p] = "subs"
        /\ loc[p].video # NoVideo
        /\ videos[loc[p].video] # "pushed"
        /\ videos'[loc[p].video] = "pushed")
       => \A c \in loc[p].matched : SuccessCount(loc[p].video, c) >= 1]_vars

\* the chat matches an enabled subscription for the video, and all the
\* attempts recorded for the pair so far have failed
FailedOnly(v, c) ==
  /\ c \in Range(GetMatchingSubscriptions(v))
  /\ FailedCount(v, c) >= 1
  /\ SuccessCount(v, c) = 0

\* C11: a delivery that ended in a transport failure is attempted again by a
\* later sweep: every sweep that starts takes up each video that has a
\* matching chat with only FAILED attempts
C11_FailedIsRetried ==
  [][\A p \in Cyclers :
       (pc[p] = "sweep" /\ pc'[p] = "video")
       => \A v \in Videos, c \in Chats :
            FailedOnly(v, c) => v \in Range(loc'[p].queue)]_vars

\* C12: in the sweep of one video, PushVideoToChat is invoked at most once
\* for a chat, also when the chat matches several subscriptions and its first
\* push failed
C12_OncePerSweep ==
  \A p \in Cyclers :
    \A i, j \in 1..Len(loc[p].called) :
      loc[p].called[i] = loc[p].called[j] => i = j

\* ---------------------------------------------------------------- the send chain
\* C13: the sends of one push follow the fallback chain: a rich-media send
\* only with a preview, and a push that ends in an error has tried the text
\* message last
C13_ChainEndsWithText ==
  \A p \in Procs :
    pc[p] = "push_record" =>
      /\ ("video" \in Range(loc[p].attempts)) <=> media[loc[p].video].preview
      /\ loc[p].sendErr => loc[p].attempts[Len(loc[p].attempts)] = "text"

\* the push record of the call p is making: SUCCESS iff its last send succeeded
RecordOf(p) ==
  [video |-> loc[p].video, chat |-> loc[p].chat,
   status |-> IF loc[p].sendErr THEN PushStatusFailed ELSE PushStatusSuccess]

\* the step in which the call of p leaves its record stage and returns
RecordStep(p) == pc[p] = "push_record" /\ pc'[p] # "push_record"

\* the send stage of p ends without an error iff the transport delivered
\* the message
SendOutcome(p) ==
  (pc[p] = "push_send" /\ pc'[p] = "push_record") =>
     (loc'[p].sendErr <=> sent' = sent)

SentCount(v, c) == CopiesIn([video |-> v, chat |-> c], sent)

\* C15: over any sequence of cycles the transport delivers at most one
\* message per (video, chat) pair, also when RecordPush or MarkAsPushed fail
\* after a successful send
C15_AtMostOneSend ==
  \A v \in Videos, c \in Chats : SentCount(v, c) <= 1

\* ---------------------------------------------------------------- direct store calls
\* the videos a caller can pass to SaveVideo / SaveVideos: a code and the
\* value of the Pushed field
VideoRows == [code : Videos, pushed : BOOLEAN]
Batches == UNION {[1..n -> VideoRows] : n \in 0..MaxBatch}

\* mutant: the Pushed field of the caller's videos is left as passed
KeepPushed(rows) == rows

\* SaveVideo / SaveVideos: v.Pushed = false
ClearPushed(rows) == [i \in 1..Len(rows) |-> [rows[i] EXCEPT !.pushed = FALSE]]

RowState(r) == IF r.pushed THEN "pushed" ELSE "unpushed"

RECURSIVE InsertRowsUpsert(_, _, _)
\* mutant: on a conflict the existing row is overwritten with the new one
InsertRowsUpsert(rows, tbl, ord) ==
  IF rows = <<>> THEN [videos |-> tbl, order |-> ord, saved |-> 0]
  ELSE LET r == Head(rows) IN
       IF tbl[r.code] = "absent"
       THEN LET x == InsertRowsUpsert(Tail(rows), [tbl EXCEPT ![r.code] = RowState(r)],
                                      Append(ord, r.code))
            IN [x EXCEPT !.saved = @ + 1]
       ELSE InsertRowsUpsert(Tail(rows), [tbl EXCEPT ![r.code] = RowState(r)], ord)

RECURSIVE InsertRows(_, _, _)
\* INSERT ... ON CONFLICT (code) DO NOTHING of rows carrying their Pushed
\* value: [videos, order, saved], saved being RowsAffected
InsertRows(rows, tbl, ord) ==
  IF rows = <<>> THEN [videos |-> tbl, order |-> ord, saved |-> 0]
  ELSE LET r == Head(rows) IN
       IF tbl[r.code] = "absent"
       THEN LET x == InsertRows(Tail(rows), [tbl EXCEPT ![r.code] = RowState(r)],
                                Append(ord, r.code))
            IN [x EXCEPT !.saved = @ + 1]
       ELSE InsertRows(Tail(rows), tbl, ord)

\* MySQLStore.SaveVideo(video)
StoreSaveVideo ==
  \E r \in VideoRows, ok \in StoreOK :
    LET x == InsertRows(ClearPushed(<<r>>), videos, order) IN
    /\ videos' = IF ok THEN x.videos ELSE videos
    /\ order' = IF ok THEN x.order ELSE order
    /\ call' = [NoCall EXCEPT !.op = "SaveVideo", !.rows = <<r>>, !.err = ~ok]
    /\ UNCHANGED <<logged, schedVars, subs, pushRecords, pc, loc, ctxDone, sent,
                   envVars, loop, crawl, eval, sess, botCrawls, pushes>>

\* MySQLStore.SaveVideos(videos): (saved, duplicates, err)
StoreSaveVideos ==
  \E rows \in Batches, ok \in StoreOK :
    LET x == InsertRows(ClearPushed(rows), videos, order) IN
    IF rows = <<>>
    THEN /\ call' = [NoCall EXCEPT !.op = "SaveVideos"]
         /\ UNCHANGED <<logged, schedVars, storeVars, pc, loc, ctxDone, sent,
                        envVars, loop, crawl, eval, sess, botCrawls, pushes>>
    ELSE /\ videos' = IF ok THEN x.videos ELSE videos
         /\ order' = IF ok THEN x.order ELSE order
         /\ call' = [NoCall EXCEPT !.op = "SaveVideos", !.rows = rows,
                                   !.saved = IF ok THEN x.saved ELSE 0,
                                   !.duplicates = IF ok THEN Len(rows) - x.saved ELSE 0,
                                   !.err = ~ok]
         /\ UNCHANGED <<logged, schedVars, subs, pushRecords, pc, loc, ctxDone, sent,
                        envVars, loop, crawl, eval, sess, botCrawls, pushes>>

\* MySQLStore.MarkAsPushed(videoID)
StoreMarkAsPushed ==
  \E v \in Videos, ok \in StoreOK :
    /\ videos' = IF ok /\ videos[v] # "absent"
                 THEN [videos EXCEPT ![v] = "pushed"] ELSE videos
    /\ call' = [NoCall EXCEPT !.op = "MarkAsPushed",
                              !.rows = <<[code |-> v, pushed |-> TRUE]>>, !.err = ~ok]
    /\ UNCHANGED <<logged, schedVars, order, subs, pushRecords, pc, loc, ctxDone, sent,
                   envVars, loop, crawl, eval, sess, botCrawls, pushes>>

\* a subscription row that was disabled in the database
DisabledSub == [chat |-> 1, type |-> SubTypeAll, keyword |-> <<>>, enabled |-> FALSE]

\* the videos table called directly, starting empty
InitStore ==
  /\ InitCommon
  /\ eval = NoEval
  /\ sess = NoSess
  /\ enabled = FALSE
  /\ pc = [p \in Procs |-> IF p = Timer THEN "off" ELSE "idle"]
  /\ videos = [v \in Videos |-> "absent"]
  /\ order = <<>>
  /\ subs = <<>>
  /\ media = [v \in Videos |-> MediaOf(v)]
  /\ site = {}

NextStore ==
  \/ StoreSaveVideo
  \/ StoreSaveVideos
  \/ StoreMarkAsPushed

SpecStore == InitStore /\ [][NextStore]_vars

\* the /subscribe and /unsubscribe commands, handled one at a time by the
\* update loop, on a table that is empty or holds one disabled row
InitSubs ==
  /\ InitCommon
  /\ eval = NoEval
  /\ sess = NoSess
  /\ enabled = FALSE
  /\ pc = [p \in Procs |-> IF p = Timer THEN "off" ELSE "idle"]
  /\ videos = [v \in Videos |-> "absent"]
  /\ order = <<>>
  /\ subs \in {<<>>, <<DisabledSub>>}
  /\ media = [v \in Videos |-> MediaOf(v)]
  /\ site = {}

NextSubs ==
  \/ Subscribe
  \/ Unsubscribe

SpecSubs == InitSubs /\ [][NextSubs]_vars

\* occurrences of x in the sequence s
CountIn(s, x) == Cardinality({i \in 1..Len(s) : s[i] = x})

\* the last store call was a save that returned without an error
SaveDone(c) == c.op \in {"SaveVideo", "SaveVideos"} /\ ~c.err

C17_PushedIsMonotonic ==
  [][\A v \in Videos : videos[v] = "pushed" => videos'[v] = "pushed"]_vars

\* a SaveVideos call that included the code of a pushed video has returned
\* without an error, and the video is still pushed
C17_Witness ==
  /\ call.op = "SaveVideos"
  /\ ~call.err
  /\ call.duplicates >= 1
  /\ \E i \in 1..Len(call.rows) : videos[call.rows[i].code] = "pushed"

\* ---------------------------------------------------------------- subscriptions
\* two rows are for the same (chat, type, keyword)
SameTriple(a, b) == a.chat = b.chat /\ a.type = b.type /\ a.keyword = b.keyword

\* the step is a CreateSubscription call, without an error, for a triple that
\* has a row already
Resubscribe ==
  /\ call'.op = "CreateSubscription"
  /\ ~call'.err
  /\ call' # call \/ subs' # subs
  /\ \E i \in 1..Len(subs) : SameTriple(subs[i], call'.sub)

\* C18: the subscriptions table holds at most one row per (chat, type,
\* keyword); after CreateSubscription the triple has an enabled row, and
\* subscribing a triple that has a row sets enabled=true on that row and
\* inserts nothing
C18_OneRowPerTriple ==
  /\ [](\A i, j \in 1..Len(subs) : SameTriple(subs[i], subs[j]) => i = j)
  /\ []((call.op = "CreateSubscription" /\ ~call.err) =>
          \E i \in 1..Len(subs) : SameTriple(subs[i], call.sub) /\ subs[i].enabled)
  /\ [][Resubscribe =>
          /\ Len(subs') = Len(subs)
          /\ \A i \in 1..Len(subs) :
               subs'[i] = IF SameTriple(subs[i], call'.sub)
                          THEN [subs[i] EXCEPT !.enabled = TRUE]
                          ELSE subs[i]]_vars

\* the disabled row was subscribed again after another row had been added:
\* it is enabled, still first, and the table has two rows
C18_Witness ==
  /\ call.op = "CreateSubscription"
  /\ ~call.err
  /\ Len(subs) = 2
  /\ subs[1] = [DisabledSub EXCEPT !.enabled = TRUE]
  /\ SameTriple(subs[1], call.sub)

\* ---------------------------------------------------------------- crawl operations
\* CrawlerConfig.MaxRetries, as set by DefaultCrawlerConfig
MaxRetries == 3

\* CrawlNewVideos(pages), CrawlByActor(limit), CrawlByKeyword(limit) are
\* called; for the last two maxPages := (limit + 11) / 12. The limits they
\* are called with: one page is enough up to 12, 13 needs two
CrawlStart ==
  /\ crawl.kind = "none" \/ crawl.done
  /\ \E kind \in {"new", "actor", "keyword"} :
       \E n \in (IF kind = "new" THEN {1, 2, 3} ELSE {0, 1, 2, 3, 13}) :
         crawl' = [NoCrawl EXCEPT
                     !.kind = kind, !.limit = n, !.page = 1,
                     !.maxPages = IF kind = "new" THEN n ELSE (n + 11) \div 12,
                     !.phase = "loop"]
  /\ UNCHANGED <<logged, schedVars, storeVars, pc, loc, ctxDone, sent, envVars, loop, call, eval, sess,
                 botCrawls, pushes>>

\* the end of a loop iteration that appended n videos: truncate and stop at
\* the limit, else go to the next page
Appended(c, n) ==
  IF c.count + n >= c.limit
  THEN [c EXCEPT !.count = c.limit, !.done = TRUE, !.phase = "idle"]
  ELSE [c EXCEPT !.count = c.count + n, !.page = c.page + 1, !.phase = "loop"]

\* the loop is left and allVideos is returned
Returned(c, err) == [c EXCEPT !.done = TRUE, !.err = err, !.phase = "idle"]

\* the iteration ends with n more videos and the loop goes to the next page
Continued(c, n) ==
  [c EXCEPT !.count = c.count + n, !.page = c.page + 1, !.phase = "loop"]

\* the head of the page loop: the loop test, the ctx.Done() check, and the
\* call of fetchWithRetry for the page
CrawlLoop ==
  /\ crawl.phase = "loop"
  /\ crawl' = IF crawl.page > crawl.maxPages THEN Returned(crawl, FALSE)
              ELSE IF ctxDone THEN Returned(crawl, TRUE)
              ELSE [crawl EXCEPT !.phase = "fetch", !.attempt = 0, !.tries = 0,
                                 !.waits = <<>>, !.fres = "none",
                                 !.fetched = Append(@, crawl.page)]
  /\ UNCHANGED <<logged, schedVars, storeVars, pc, loc, ctxDone, sent, envVars, loop, call, eval, sess,
                 botCrawls, pushes>>

\* fetchWithRetry with one attempt more than the budget allows
FetchAttemptOneMore ==
  /\ crawl.phase = "fetch"
  /\ \E ok \in BOOLEAN :
       crawl' = IF ctxDone
                THEN [crawl EXCEPT !.fres = "cancelled", !.cancelSeen = TRUE,
                                   !.phase = "page"]
                ELSE IF ok
                THEN [crawl EXCEPT !.tries = @ + 1, !.fres = "html", !.phase = "page"]
                ELSE IF crawl.attempt < MaxRetries + 1
                THEN [crawl EXCEPT !.tries = @ + 1, !.phase = "backoff",
                                   !.waits = Append(@, 2 ^ crawl.attempt)]
                ELSE [crawl EXCEPT !.tries = @ + 1, !.fres = "failed", !.phase = "page"]
  /\ UNCHANGED <<logged, schedVars, storeVars, pc, loc, ctxDone, sent, envVars, loop, call, eval, sess,
                 botCrawls, pushes>>

\* fetchWithRetry, one attempt: limiter.Wait(ctx), c.fetch, and for a failed
\* attempt that is not the last the backoff 2^attempt seconds
FetchAttempt ==
  /\ crawl.phase = "fetch"
  /\ \E ok \in BOOLEAN :
       crawl' = IF ctxDone
                THEN [crawl EXCEPT !.fres = "cancelled", !.cancelSeen = TRUE,
                                   !.phase = "page"]
                ELSE IF ok
                THEN [crawl EXCEPT !.tries = @ + 1, !.fres = "html", !.phase = "page"]
                ELSE IF crawl.attempt < MaxRetries
                THEN [crawl EXCEPT !.tries = @ + 1, !.phase = "backoff",
                                   !.waits = Append(@, 2 ^ crawl.attempt)]
                ELSE [crawl EXCEPT !.tries = @ + 1, !.fres = "failed", !.phase = "page"]
  /\ UNCHANGED <<logged, schedVars, storeVars, pc, loc, ctxDone, sent, envVars, loop, call, eval, sess,
                 botCrawls, pushes>>

\* fetchWithRetry, the backoff: select on ctx.Done() and time.After(backoff)
Backoff ==
  /\ crawl.phase = "backoff"
  /\ crawl' = IF ctxDone
              THEN [crawl EXCEPT !.fres = "cancelled", !.cancelSeen = TRUE,
                                 !.phase = "page"]
              ELSE [crawl EXCEPT !.attempt = @ + 1, !.phase = "fetch"]
  /\ UNCHANGED <<logged, schedVars, storeVars, pc, loc, ctxDone, sent, envVars, loop, call, eval, sess,
                 botCrawls, pushes>>

\* what crawlWithBrowser can return: a number of videos, or -1 for an error
BrowserResults == IF ctxDone THEN {-1} ELSE -1..MaxPageVideos

\* the notes on the plain fetch of the current page: it failed on every
\* attempt, or it succeeded and n videos were parsed from it
Noted(c, parsed, n) ==
  [c EXCEPT !.failed = IF c.fres = "failed" THEN @ \cup {c.page} ELSE @,
            !.zero = IF c.fres = "html" /\ parsed /\ n = 0 THEN @ \cup {c.page} ELSE @]

\* the browser was called for the current page
Rendered(c) == [c EXCEPT !.renders = Append(@, c.page)]

\* CrawlNewVideos: the rest of a loop iteration, from the result of
\* fetchWithRetry on; b is the result of crawlWithBrowser
CrawlNewVideosStep ==
  /\ crawl.kind = "new"
  /\ crawl.phase = "page"
  /\ \E parseOK \in BOOLEAN, n \in 0..MaxPageVideos, b \in BrowserResults :
       LET c == Noted(crawl, parseOK, n) IN
       crawl' = IF crawl.fres # "html"
                THEN IF crawl.page = 1
                     THEN Continued(Rendered(c), IF b > 0 THEN b ELSE 0)
                     ELSE Continued(c, 0)
                ELSE IF ~parseOK THEN Continued(c, 0)
                ELSE IF crawl.page = 1 /\ n = 0
                THEN Continued(Rendered(c), IF b > 0 THEN b ELSE 0)
                ELSE Continued(c, n)
  /\ UNCHANGED <<logged, schedVars, storeVars, pc, loc, ctxDone, sent, envVars, loop, call, eval, sess,
                 botCrawls, pushes>>

\* CrawlByActor: the rest of a loop iteration, from the result of
\* fetchWithRetry on
CrawlByActorStep ==
  /\ crawl.kind = "actor"
  /\ crawl.phase = "page"
  /\ \E parseOK \in BOOLEAN, n \in 0..MaxPageVideos :
       LET c == Noted(crawl, parseOK, n) IN
       crawl' = IF crawl.fres # "html" THEN Returned(c, FALSE)
                ELSE IF ~parseOK \/ n = 0 THEN Returned(c, FALSE)
                ELSE Appended(c, n)
  /\ UNCHANGED <<logged, schedVars, storeVars, pc, loc, ctxDone, sent, envVars, loop, call, eval, sess,
                 botCrawls, pushes>>

\* CrawlByKeyword: the rest of a loop iteration, from the result of
\* fetchWithRetry on; b is the result of crawlWithBrowser
CrawlByKeywordStep ==
  /\ crawl.kind = "keyword"
  /\ crawl.phase = "page"
  /\ \E parseOK \in BOOLEAN, n \in 0..MaxPageVideos, b \in BrowserResults :
       LET c == Noted(crawl, parseOK, n)
           videos1 == IF b > 0 THEN b ELSE n
       IN
       crawl' = IF crawl.fres # "html"
                THEN IF crawl.page = 1
                     THEN IF b > 0 THEN Continued(Rendered(c), b)
                          ELSE Returned(Rendered(c), FALSE)
                     ELSE Returned(c, FALSE)
                ELSE IF ~parseOK THEN Returned(c, FALSE)
                ELSE IF crawl.page = 1 /\ n = 0
                THEN IF videos1 = 0 THEN Returned(Rendered(c), FALSE)
                     ELSE Appended(Rendered(c), videos1)
                ELSE IF n = 0 THEN Returned(c, FALSE)
                ELSE Appended(c, n)
  /\ UNCHANGED <<logged, schedVars, storeVars, pc, loc, ctxDone, sent, envVars, loop, call, eval, sess,
                 botCrawls, pushes>>

NextCrawl ==
  \/ Cancel
  \/ CrawlStart
  \/ CrawlLoop
  \/ FetchAttempt
  \/ Backoff
  \/ CrawlNewVideosStep
  \/ CrawlByActorStep
  \/ CrawlByKeywordStep

\* the crawler's operations called one after another
SpecCrawl == InitStore /\ [][NextCrawl]_vars

\* C19: CrawlByActor and CrawlByKeyword return at most limit videos, on every
\* path through the loop
C19_AtMostLimit ==
  (crawl.kind \in {"actor", "keyword"} /\ crawl.done) => crawl.count <= crawl.limit

\* ---------------------------------------------------------------- errors in a cycle
\* C20: an error of the harvest stage does not abort the cycle: when
\* CrawlNewVideos has returned, with or without an error, RunOnce goes on to
\* the persist stage or to the delivery sweep
C20_SweepAfterHarvestError ==
  [][\A p \in Cyclers :
       pc[p] = "crawling" => pc'[p] \in {"crawling", "save", "sweep"}]_vars

\* C21: when persisting the harvested batch fails, the delivery sweep is
\* skipped for that cycle: RunOnce goes from the persist stage to the sweep
\* only with every video of the batch in the videos table
C21_NoSweepAfterSaveError ==
  [][\A p \in Cyclers :
       (pc[p] = "save" /\ pc'[p] = "sweep")
       => \A v \in loc[p].batch : videos'[v] # "absent"]_vars

\* ---------------------------------------------------------------- cancellation and fallback in a crawl
\* C22: a crawl operation whose fetchWithRetry was ended by the cancellation
\* of the context, in limiter.Wait or in a backoff, returns the cancellation
\* error, never nil
C22_CancelledReturnsError ==
  (crawl.done /\ crawl.cancelSeen) => crawl.err

\* C23: when the plain fetch of page 1 succeeded and gave zero videos, the
\* browser is called exactly once, for page 1; it is never called for a
\* page >= 2
C23_FallbackOnceOnEmptyFirstPage ==
  /\ \A i \in 1..Len(crawl.renders) : crawl.renders[i] = 1
  /\ (crawl.done /\ 1 \in crawl.zero) => crawl.renders = <<1>>

\* C24: once a page >= 2 gave zero videos, no further page is fetched: such a
\* page is the last of the pages fetched
C24_StopsAtEmptyPage ==
  \A i \in 1..Len(crawl.fetched) :
    (crawl.fetched[i] >= 2 /\ crawl.fetched[i] \in crawl.zero)
    => i = Len(crawl.fetched)

\* C29: when every plain-fetch attempt for page 1 failed, the browser is
\* called for page 1 before the operation returns
C29_FallbackOnFailedFirstPage ==
  (crawl.done /\ 1 \in crawl.failed)
  => \E i \in 1..Len(crawl.renders) : crawl.renders[i] = 1

\* C30: fetchWithRetry makes at most 1 + 3 fetches for a page, makes none
\* after a fetch succeeded, waits 1, 2 and 4 seconds after the first, second
\* and third failed fetch and not after the fourth, and a wait during which
\* the context is cancelled ends the call with the cancellation error
C30_RetryBudgetAndBackoff ==
  /\ [](/\ crawl.tries <= 1 + 3
        /\ Len(crawl.waits) <= 3
        /\ \A k \in 1..Len(crawl.waits) : crawl.waits[k] = <<1, 2, 4>>[k]
        /\ crawl.phase = "backoff" => Len(crawl.waits) = crawl.tries
        /\ crawl.fres = "failed" => (crawl.tries = 1 + 3 /\ Len(crawl.waits) = 3)
        /\ crawl.fres = "html" => crawl.phase \in {"page", "loop", "idle"})
  /\ [][/\ crawl'.tries = crawl.tries + 1 => crawl.fres = "none"
        /\ (crawl.phase = "backoff" /\ ctxDone /\ crawl' # crawl)
           => (crawl'.fres = "cancelled" /\ crawl'.tries = crawl.tries)]_vars

\* every attempt of the budget failed, with the three waits between them
C30_Witness ==
  crawl.fres = "failed" /\ crawl.tries = 4 /\ crawl.waits = <<1, 2, 4>>

\* ---------------------------------------------------------------- functions called on their own
\* the state in which a function is called on its own: nothing else runs
InitIdle ==
  /\ InitCommon
  /\ enabled = FALSE
  /\ pc = [p \in Procs |-> IF p = Timer THEN "off" ELSE "idle"]
  /\ videos = [v \in Videos |-> "absent"]
  /\ order = <<>>
  /\ subs = <<>>
  /\ media = [v \in Videos |-> MediaOf(v)]
  /\ site = {}

\* the sequences of at most n elements of a set: the strings over an
\* alphabet, the lists of items of a page
Strings(alphabet, n) == UNION {[1..k -> alphabet] : k \in 0..n}

\* unicode.ToUpper; "kra" is U+0138, a lower-case letter that has no
\* upper-case form
UpperOf(c) ==
  CASE c = "a" -> "A"
    [] c = "b" -> "B"
    [] c = "x" -> "X"
    [] c = "y" -> "Y"
    [] c = "h" -> "H"
    [] c = "m" -> "M"
    [] OTHER -> c
\* strings.ToUpper
ToUpper(s) == [i \in 1..Len(s) |-> UpperOf(s[i])]

\* ---------------------------------------------------------------- MatchesSubscription
\* the lengths of the actresses and tags fields and of a keyword
MaxFieldLen == 2
MaxKeywordLen == 2

\* push.MatchesSubscription with a case-sensitive comparison
MatchesSubscriptionCaseSensitive(video, sub) ==
  IF video.nil \/ sub.nil THEN FALSE
  ELSE CASE sub.type = SubTypeAll -> TRUE
         [] sub.type = SubTypeActress -> Contains(video.actresses, sub.keyword)
         [] sub.type = SubTypeTag -> Contains(video.tags, sub.keyword)
         [] OTHER -> FALSE

\* push.MatchesSubscription, on a video and a subscription that may be nil
MatchesSubscription(video, sub) ==
  IF video.nil \/ sub.nil THEN FALSE
  ELSE CASE sub.type = SubTypeAll -> TRUE
         [] sub.type = SubTypeActress ->
              Contains(ToLower(video.actresses), ToLower(sub.keyword))
         [] sub.type = SubTypeTag ->
              Contains(ToLower(video.tags), ToLower(sub.keyword))
         [] OTHER -> FALSE

\* the arguments MatchesSubscription is called with; "" is a type that is
\* none of the three
InitMatch ==
  /\ InitIdle
  /\ sess = NoSess
  /\ \E a \in Strings({"a", "A", "b"}, MaxFieldLen),
        t \in Strings({"a", "A", "b"}, MaxFieldLen),
        vnil \in BOOLEAN, snil \in BOOLEAN,
        ty \in {SubTypeAll, SubTypeActress, SubTypeTag, ""},
        k \in Strings({"a", "A", "b"}, MaxKeywordLen) :
       /\ vnil => (a = <<>> /\ t = <<>>)
       /\ snil => (ty = "" /\ k = <<>>)
       /\ eval = [fn |-> "MatchesSubscription", done |-> FALSE,
                  video |-> [nil |-> vnil, actresses |-> a, tags |-> t],
                  sub |-> [nil |-> snil, type |-> ty, keyword |-> k],
                  out |-> FALSE,
                  store |-> [done |-> FALSE, panic |-> FALSE, out |-> FALSE]]

\* MatchesSubscription is called
CallMatchesSubscription ==
  /\ eval.fn = "MatchesSubscription"
  /\ ~eval.done
  /\ eval' = [eval EXCEPT !.done = TRUE,
                          !.out = MatchesSubscription(eval.video, eval.sub)]
  /\ UNCHANGED <<logged, schedVars, storeVars, pc, loc, ctxDone, sent, envVars, loop, call,
                 crawl, sess, botCrawls, pushes>>

\* the store's matchesSubscription is called with the same arguments: it
\* reads sub.Type and, for ACTRESS and TAG, a field of the video, with no
\* nil check
CallStoreMatches ==
  /\ eval.fn = "MatchesSubscription"
  /\ ~eval.store.done
  /\ eval' = [eval EXCEPT !.store =
        IF eval.sub.nil
           \/ (eval.video.nil /\ eval.sub.type \in {SubTypeActress, SubTypeTag})
        THEN [done |-> TRUE, panic |-> TRUE, out |-> FALSE]
        ELSE [done |-> TRUE, panic |-> FALSE,
              out |-> matchesFields(eval.video.actresses, eval.video.tags,
                                    eval.sub)]]
  /\ UNCHANGED <<logged, schedVars, storeVars, pc, loc, ctxDone, sent, envVars, loop, call,
                 crawl, sess, botCrawls, pushes>>

SpecMatch == InitMatch /\ [][CallMatchesSubscription \/ CallStoreMatches]_vars

\* C25: MatchesSubscription is false when the video or the subscription is
\* nil; otherwise it is true for type ALL whatever the keyword, and for
\* ACTRESS / TAG it is true exactly when the actresses / tags field contains
\* the keyword, the case of the letters ignored
C25_MatchesSubscription ==
  (eval.fn = "MatchesSubscription" /\ eval.done) =>
    LET v == eval.video
        s == eval.sub
        \* k occurs in f when the case of the letters is ignored
        OccursIgnoringCase(f, k) ==
          \E i \in 0..(Len(f) - Len(k)) :
            \A j \in 1..Len(k) : UpperOf(f[i + j]) = UpperOf(k[j])
    IN  /\ (v.nil \/ s.nil) => ~eval.out
        /\ (~v.nil /\ ~s.nil /\ s.type = "ALL") => eval.out
        /\ (~v.nil /\ ~s.nil /\ s.type = "ACTRESS")
           => (eval.out <=> OccursIgnoringCase(v.actresses, s.keyword))
        /\ (~v.nil /\ ~s.nil /\ s.type = "TAG")
           => (eval.out <=> OccursIgnoringCase(v.tags, s.keyword))

\* an actress subscription matched by a keyword in another case
C25_Witness ==
  /\ eval.fn = "MatchesSubscription" /\ eval.done /\ eval.out
  /\ ~eval.video.nil /\ ~eval.sub.nil
  /\ eval.sub.type = "ACTRESS"
  /\ eval.sub.keyword = <<"A", "b">>
  /\ eval.video.actresses = <<"a", "b">>

\* C39: on a video and a subscription that are not nil, the store's
\* matchesSubscription returns what push.MatchesSubscription returns
C39_StoreMatchesAsPush ==
  (/\ eval.fn = "MatchesSubscription" /\ eval.done /\ eval.store.done
   /\ ~eval.video.nil /\ ~eval.sub.nil)
  => (~eval.store.panic /\ eval.store.out = eval.out)

\* both functions matched a tag subscription whose keyword is in another case
C39_Witness ==
  /\ eval.fn = "MatchesSubscription" /\ eval.done /\ eval.store.done
  /\ ~eval.video.nil /\ ~eval.sub.nil
  /\ eval.sub.type = "TAG"
  /\ eval.sub.keyword = <<"b", "A">>
  /\ eval.video.tags = <<"b", "a">>
  /\ eval.out /\ eval.store.out

\* ---------------------------------------------------------------- DetermineSubscriptionType
\* the length of the argument of /subscribe
MaxArgLen == 3

InitArgs ==
  /\ InitIdle
  /\ sess = NoSess
  /\ \E args \in Strings({" ", "#", "a", "B"}, MaxArgLen) :
       eval = [fn |-> "DetermineSubscriptionType", done |-> FALSE, args |-> args,
               out |-> [type |-> "", keyword |-> <<>>]]

\* DetermineSubscriptionType is called
CallDetermineSubscriptionType ==
  /\ eval.fn = "DetermineSubscriptionType"
  /\ ~eval.done
  /\ eval' = [eval EXCEPT !.done = TRUE,
                          !.out = DetermineSubscriptionType(eval.args)]
  /\ UNCHANGED <<logged, schedVars, storeVars, pc, loc, ctxDone, sent, envVars, loop, call,
                 crawl, sess, botCrawls, pushes>>

SpecArgs == InitArgs /\ [][CallDetermineSubscriptionType]_vars

\* C26 as stated: an empty or whitespace-only argument gives ALL and "", an
\* argument that starts with "#" gives TAG and the argument without the "#",
\* any other argument gives ACTRESS and the argument itself
C26_RuleOfArgument ==
  (eval.fn = "DetermineSubscriptionType" /\ eval.done) =>
    LET \* the positions of the argument that hold something else than a space
        Inked == {i \in 1..Len(eval.args) : eval.args[i] # " "}
        \* the rule read on a text: ALL for the empty text, TAG and the rest for
        \* a text that starts with "#", ACTRESS and the text otherwise
        RuleOf(text) ==
          IF text = <<>> THEN [type |-> "ALL", keyword |-> <<>>]
          ELSE IF text[1] = "#"
          THEN [type |-> "TAG", keyword |-> SubSeq(text, 2, Len(text))]
          ELSE [type |-> "ACTRESS", keyword |-> text]
    IN  eval.out = IF Inked = {} THEN [type |-> "ALL", keyword |-> <<>>]
                   ELSE RuleOf(eval.args)

\* C26: the rule is read on the argument without its leading and trailing
\* whitespace: empty gives ALL and "", a "#" first gives TAG and what follows
\* the "#", anything else gives ACTRESS and the trimmed argument
C26_RuleOfTrimmedArgument ==
  (eval.fn = "DetermineSubscriptionType" /\ eval.done) =>
    LET \* the positions of the argument that hold something else than a
        \* space, and the argument from the first to the last of them
        Inked == {i \in 1..Len(eval.args) : eval.args[i] # " "}
        Core ==
          IF Inked = {} THEN <<>>
          ELSE SubSeq(eval.args, CHOOSE i \in Inked : \A j \in Inked : i <= j,
                                 CHOOSE i \in Inked : \A j \in Inked : i >= j)
        \* the rule read on a text: ALL for the empty text, TAG and the rest for
        \* a text that starts with "#", ACTRESS and the text otherwise
        RuleOf(text) ==
          IF text = <<>> THEN [type |-> "ALL", keyword |-> <<>>]
          ELSE IF text[1] = "#"
          THEN [type |-> "TAG", keyword |-> SubSeq(text, 2, Len(text))]
          ELSE [type |-> "ACTRESS", keyword |-> text]
    IN  eval.out = RuleOf(Core)

\* a tag argument typed after a space
C26_Witness ==
  /\ eval.fn = "DetermineSubscriptionType" /\ eval.done
  /\ eval.args = <<" ", "#", "a">>
  /\ eval.out = [type |-> "TAG", keyword |-> <<"a">>]

\* ---------------------------------------------------------------- NormalizeCode
\* the length of a code to normalize
MaxCodeLen == 3

\* NormalizeCode that returns its argument
NormalizeCodeUnchanged(code) == code

\* crawler.NormalizeCode
NormalizeCode(code) == IF code = <<>> THEN <<>> ELSE ToUpper(code)

InitCode ==
  /\ InitIdle
  /\ sess = NoSess
  /\ \E code \in Strings({"a", "B", "-", "1", "kra"}, MaxCodeLen) :
       eval = [fn |-> "NormalizeCode", done |-> FALSE, code |-> code,
               out |-> <<>>, again |-> <<>>]

\* NormalizeCode is called, and called again on its result
CallNormalizeCode ==
  /\ eval.fn = "NormalizeCode"
  /\ ~eval.done
  /\ eval' = [eval EXCEPT !.done = TRUE,
                          !.out = NormalizeCode(eval.code),
                          !.again = NormalizeCode(NormalizeCode(eval.code))]
  /\ UNCHANGED <<logged, schedVars, storeVars, pc, loc, ctxDone, sent, envVars, loop, call,
                 crawl, sess, botCrawls, pushes>>

SpecCode == InitCode /\ [][CallNormalizeCode]_vars

\* C27 as stated: normalizing twice gives what normalizing once gives, and
\* the normalized code contains no lower-case letter
C27_IdempotentNoLowerCase ==
  (eval.fn = "NormalizeCode" /\ eval.done) =>
    /\ eval.again = eval.out
    /\ \A i \in 1..Len(eval.out) :
         eval.out[i] \notin {"a", "b", "x", "y", "h", "m", "kra"}

\* C27: normalizing twice gives what normalizing once gives, and the
\* normalized code has the characters of the code in the same order with
\* every letter a-z replaced by A-Z: the only lower-case letters left are
\* those that have no upper-case form
C27_IdempotentUpperCased ==
  (eval.fn = "NormalizeCode" /\ eval.done) =>
    /\ eval.again = eval.out
    /\ Len(eval.out) = Len(eval.code)
    /\ \A i \in 1..Len(eval.out) :
         /\ eval.code[i] = "a" => eval.out[i] = "A"
         /\ eval.code[i] # "a" => eval.out[i] = eval.code[i]
         /\ eval.out[i] \in {"a", "b", "x", "y", "h", "m", "kra"}
            => eval.out[i] = "kra"

\* a lower-case code was normalized
C27_Witness ==
  /\ eval.fn = "NormalizeCode" /\ eval.done
  /\ eval.code = <<"a", "-", "1">>
  /\ eval.out = <<"A", "-", "1">>

\* ---------------------------------------------------------------- ParseVideoList
\* the letters and digits of the texts of a page
IsLetter(c) == c \in {"a", "b", "x", "y", "h", "m", "A", "B", "X", "Y", "H", "M"}
IsDigit(c) == c \in {"1", "2"}

\* codePattern (?i)([A-Z]+-\d+): the positions of s where a match starts, and
\* the leftmost match with its letters and digits taken greedily, <<>> when
\* there is none
CodeStarts(s) ==
  {i \in 1..Len(s) :
     \E j \in i..(Len(s) - 2) :
        /\ \A k \in i..j : IsLetter(s[k])
        /\ s[j + 1] = "-"
        /\ IsDigit(s[j + 2])}
FindCode(s) ==
  IF CodeStarts(s) = {} THEN <<>>
  ELSE LET i == CHOOSE a \in CodeStarts(s) : \A b \in CodeStarts(s) : a <= b
           j == CHOOSE a \in i..(Len(s) - 2) :
                  (\A k \in i..a : IsLetter(s[k])) /\ s[a + 1] = "-"
           e == CHOOSE a \in (j + 2)..Len(s) :
                  /\ \A k \in (j + 2)..a : IsDigit(s[k])
                  /\ (a = Len(s) \/ ~IsDigit(s[a + 1]))
       IN  SubSeq(s, i, e)

\* crawler.ExtractCode
ExtractCode(text) ==
  IF text = <<>> THEN <<>>
  ELSE IF FindCode(text) # <<>> THEN NormalizeCode(FindCode(text))
  ELSE <<>>

\* s up to the first c, all of s when c is not in it
Before(s, c) ==
  IF \E i \in 1..Len(s) : s[i] = c
  THEN SubSeq(s, 1, (CHOOSE i \in 1..Len(s) :
                       s[i] = c /\ \A k \in 1..(i - 1) : s[k] # c) - 1)
  ELSE s
\* the last of strings.Split(url, "/")
LastPart(s) ==
  IF \E i \in 1..Len(s) : s[i] = "/"
  THEN SubSeq(s, (CHOOSE i \in 1..Len(s) :
                    s[i] = "/" /\ \A k \in (i + 1)..Len(s) : s[k] # "/") + 1, Len(s))
  ELSE s

\* crawler.extractCodeFromURL
extractCodeFromURL(url) ==
  IF url = <<>> THEN <<>>
  ELSE LET cut == Before(Before(url, "?"), "#")
           trimmed == IF cut # <<>> /\ cut[Len(cut)] = "/"
                      THEN SubSeq(cut, 1, Len(cut) - 1) ELSE cut
           lastPart == LastPart(trimmed)
       IN  IF lastPart # <<>> THEN NormalizeCode(lastPart) ELSE <<>>

\* BaseURL, "https://missav.ai" shortened to a scheme and a host of one
\* letter each
BaseURL == <<"h", ":", "/", "/", "m">>
HasPrefix(s, prefix) ==
  Len(s) >= Len(prefix) /\ SubSeq(s, 1, Len(prefix)) = prefix

\* Parser.normalizeURL
normalizeURL(url) ==
  IF url = <<>> THEN <<>>
  ELSE IF HasPrefix(url, <<"h", ":", "/", "/">>) THEN url
  ELSE IF HasPrefix(url, <<"/">>) THEN BaseURL \o url
  ELSE BaseURL \o <<"/">> \o url

\* Parser.parseVideoCard: the code of the video of a card with the given
\* title and link
parseVideoCard(card) ==
  LET DetailURL == normalizeURL(card.href)
      fromTitle == ExtractCode(card.title)
      fromURL == IF fromTitle = <<>> /\ DetailURL # <<>>
                 THEN ExtractCode(DetailURL) ELSE fromTitle
  IN  IF fromURL = <<>> /\ DetailURL # <<>>
      THEN extractCodeFromURL(DetailURL) ELSE fromURL

\* Parser.parseVideoFromLink: the code of the video of a link
parseVideoFromLink(href) ==
  IF ExtractCode(href) = <<>> THEN extractCodeFromURL(href) ELSE ExtractCode(href)

\* Parser.extractVideosFromJSON: the codes of the dvd_id values of the
\* script, of its uuid values when it has no dvd_id
extractVideosFromJSON(page) ==
  IF page.dvd # <<>>
  THEN [i \in 1..Len(page.dvd) |-> NormalizeCode(page.dvd[i])]
  ELSE [i \in 1..Len(page.uuid) |-> NormalizeCode(page.uuid[i])]

\* Parser.ParseVideoList: the codes of the videos returned for a page that
\* has a script with dvd_id and uuid values, video cards and links
ParseVideoList(page) ==
  IF Len(extractVideosFromJSON(page)) > 0 THEN extractVideosFromJSON(page)
  ELSE IF page.cards = <<>>
  THEN LET hrefs == SelectSeq(page.links, LAMBDA href : FindCode(href) # <<>>)
       IN  SelectSeq([i \in 1..Len(hrefs) |-> parseVideoFromLink(hrefs[i])],
                     LAMBDA code : code # <<>>)
  ELSE SelectSeq([i \in 1..Len(page.cards) |-> parseVideoCard(page.cards[i])],
                 LAMBDA code : code # <<>>)

\* crawler.IsValidCode: ^[A-Z]+-\d+$
IsValidCode(code) ==
  /\ code # <<>>
  /\ \E j \in 1..(Len(code) - 2) :
       /\ \A k \in 1..j : code[k] \in {"A", "B", "X", "Y", "H", "M"}
       /\ code[j + 1] = "-"
       /\ \A k \in (j + 2)..Len(code) : IsDigit(code[k])

\* what a page holds: at most MaxItems of each kind
MaxItems == 1

\* the page ParseVideoList is called with: the dvd_id and uuid values of its
\* script, its cards with their title and href, its links
InitParse ==
  /\ InitIdle
  /\ sess = NoSess
  /\ LET ids == {<<"a", "-", "1">>, <<"a", "1">>}
         titles == {<<>>, <<"B", "-", "1">>, <<"x">>}
         hrefs == {<<>>, <<"/", "a", "-", "1">>, <<"/", "x", "/", "a", "1">>,
                   <<"/", "x", "/">>}
     IN
     \E dvd \in Strings(ids, MaxItems), uuid \in Strings(ids, MaxItems),
        cards \in Strings([title : titles, href : hrefs], MaxItems),
        links \in Strings(hrefs, MaxItems) :
       eval = [fn |-> "ParseVideoList", done |-> FALSE,
               page |-> [dvd |-> dvd, uuid |-> uuid, cards |-> cards, links |-> links],
               out |-> <<>>]

\* ParseVideoList is called
CallParseVideoList ==
  /\ eval.fn = "ParseVideoList"
  /\ ~eval.done
  /\ eval' = [eval EXCEPT !.done = TRUE, !.out = ParseVideoList(eval.page)]
  /\ UNCHANGED <<logged, schedVars, storeVars, pc, loc, ctxDone, sent, envVars, loop, call,
                 crawl, sess, botCrawls, pushes>>

SpecParse == InitParse /\ [][CallParseVideoList]_vars

\* C28: every video returned by ParseVideoList has a non-empty upper-case
\* code of the form letters, "-", digits, whatever strategy produced it
C28_CodesAreValid ==
  (eval.fn = "ParseVideoList" /\ eval.done) =>
    \A i \in 1..Len(eval.out) : eval.out[i] # <<>> /\ IsValidCode(eval.out[i])

\* ---------------------------------------------------------------- the crawler's session
\* calls made on the Browser directly
MaxBrowserCalls == 2

\* a step of the crawler that changes nothing but the session
SessStep(next) ==
  /\ sess' = next
  /\ UNCHANGED <<logged, schedVars, storeVars, pc, loc, ctxDone, sent, envVars, loop, call,
                 crawl, eval, botCrawls, pushes>>

\* initCookies entered without c.cookieMu.Lock()
InitCookiesNoLock(h) ==
  /\ sess.pc[h] = "ic_lock"
  /\ SessStep([sess EXCEPT !.pc[h] = "ic_check"])

\* initCookies: c.cookieMu.Lock()
InitCookiesLock(h) ==
  /\ sess.pc[h] = "ic_lock"
  /\ sess.cookieMu = NoOwner
  /\ SessStep([sess EXCEPT !.cookieMu = h, !.pc[h] = "ic_check"])

\* initCookies: cookies younger than cookieExpireDuration are kept and the
\* function returns (the deferred Unlock runs), else the warm-up starts
InitCookiesCheck(h) ==
  /\ sess.pc[h] = "ic_check"
  /\ SessStep(IF sess.cookieInitTime = "fresh"
              THEN [sess EXCEPT !.cookieMu = NoOwner, !.pc[h] = "loop"]
              ELSE [sess EXCEPT !.i[h] = 1, !.pc[h] = "ic_fetch"])

\* initCookies with a return at a failed warm-up request
WarmupFetchAbort(h) ==
  /\ sess.pc[h] = "ic_fetch"
  /\ \E ok \in BOOLEAN :
       SessStep(IF ctxDone \/ ~ok
                THEN [sess EXCEPT !.cookieMu = NoOwner, !.pc[h] = "done",
                                  !.res[h] = "failed"]
                ELSE IF sess.i[h] < 3
                THEN [sess EXCEPT !.requests = @ + 1, !.warmLog = Append(@, h),
                                  !.i[h] = @ + 1]
                ELSE [sess EXCEPT !.requests = @ + 1, !.warmLog = Append(@, h),
                                  !.cookieInitTime = "fresh",
                                  !.cookieMu = NoOwner, !.pc[h] = "loop"])

\* initCookies: one round of the warm-up loop: the ctx.Done() check, c.fetch
\* of the warm-up URL with its error only logged, and after the third round
\* cookieInitTime = time.Now() and the return
WarmupFetch(h) ==
  /\ sess.pc[h] = "ic_fetch"
  /\ \E ok \in BOOLEAN :
       LET sent1 == [sess EXCEPT !.requests = @ + 1, !.warmLog = Append(@, h),
                                 !.warmFails[h] = IF ok THEN @ ELSE @ + 1]
       IN  SessStep(IF ctxDone
                    THEN [sess EXCEPT !.cookieMu = NoOwner, !.pc[h] = "loop"]
                    ELSE IF sess.i[h] < 3
                    THEN [sent1 EXCEPT !.i[h] = @ + 1]
                    ELSE [sent1 EXCEPT !.cookieInitTime = "fresh",
                                       !.cookieMu = NoOwner, !.pc[h] = "loop"])

\* CrawlNewVideos: the head of the page loop for page 1
HarvestLoop(h) ==
  /\ sess.pc[h] = "loop"
  /\ SessStep(IF ctxDone
              THEN [sess EXCEPT !.pc[h] = "done", !.res[h] = "cancelled"]
              ELSE [sess EXCEPT !.pc[h] = "fetch"])

\* fetchWithRetry for page 1, the whole call: n attempts, each one
\* limiter.Wait and c.fetch; on success the page is parsed and the operation
\* returns its videos, on failure the browser is tried
PageFetch(h) ==
  /\ sess.pc[h] = "fetch"
  /\ \E n \in 1..(MaxRetries + 1), ok \in BOOLEAN :
       /\ ~ok => n = MaxRetries + 1
       /\ SessStep(IF ctxDone
                   THEN [sess EXCEPT !.pc[h] = "done", !.res[h] = "cancelled"]
                   ELSE [sess EXCEPT !.tokens = @ + n, !.requests = @ + n,
                                     !.fetches[h] = n,
                                     !.pc[h] = IF ok THEN "done" ELSE "gb_lock",
                                     !.res[h] = IF ok THEN "ok" ELSE "none"])

\* getBrowser entered without c.browserMu.Lock()
GetBrowserNoLock(h) ==
  /\ sess.pc[h] = "gb_lock"
  /\ SessStep([sess EXCEPT !.pc[h] = "gb_check"])

\* getBrowser: c.browserMu.Lock()
GetBrowserLock(h) ==
  /\ sess.pc[h] = "gb_lock"
  /\ sess.browserMu = NoOwner
  /\ SessStep([sess EXCEPT !.browserMu = h, !.pc[h] = "gb_check"])

\* getBrowser: c.browser == nil is tested; the browser there is returned
GetBrowserCheck(h) ==
  /\ sess.pc[h] = "gb_check"
  /\ SessStep(IF sess.browser
              THEN [sess EXCEPT !.browserMu = NoOwner, !.pc[h] = "render_lock"]
              ELSE [sess EXCEPT !.pc[h] = "gb_new"])

\* getBrowser: NewBrowser() launches a session, or fails
GetBrowserNew(h) ==
  /\ sess.pc[h] = "gb_new"
  /\ \E ok \in BOOLEAN :
       SessStep(IF ok
                THEN [sess EXCEPT !.browser = TRUE, !.sessions = @ + 1,
                                  !.browserMu = NoOwner, !.pc[h] = "render_lock"]
                ELSE [sess EXCEPT !.browserMu = NoOwner, !.pc[h] = "done",
                                  !.res[h] = "failed"])

\* Browser.FetchRenderedHTML: b.mu.Lock(), the closed test, a page is opened
RenderBegin(h) ==
  /\ sess.pc[h] = "render_lock"
  /\ sess.bmu = NoOwner
  /\ SessStep(IF sess.closed
              THEN [sess EXCEPT !.pc[h] = "done", !.res[h] = "closed"]
              ELSE [sess EXCEPT !.bmu = h, !.rendering = @ \cup {h},
                                !.touched = @ + 1, !.pc[h] = "render"])

\* Browser.FetchRenderedHTML: the HTML is read, the page closed, b.mu unlocked
RenderEnd(h) ==
  /\ sess.pc[h] = "render"
  /\ SessStep([sess EXCEPT !.bmu = NoOwner, !.rendering = @ \ {h},
                           !.pc[h] = "done", !.res[h] = "rendered"])

\* Browser.Close without the closed test
BrowserCloseAgain ==
  /\ sess.browser
  /\ sess.browserMu = NoOwner /\ sess.bmu = NoOwner
  /\ sess.calls < MaxBrowserCalls
  /\ SessStep([sess EXCEPT !.closed = TRUE, !.released = @ + 1, !.calls = @ + 1,
                           !.last = [op |-> "Close", err |-> "none"]])

\* HTTPCrawler.Close and Browser.Close: under the two mutexes, a closed
\* browser returns nil at once, an open one is marked closed and released
BrowserClose ==
  /\ sess.browser
  /\ sess.browserMu = NoOwner /\ sess.bmu = NoOwner
  /\ sess.calls < MaxBrowserCalls
  /\ SessStep(IF sess.closed
              THEN [sess EXCEPT !.calls = @ + 1,
                                !.last = [op |-> "Close", err |-> "none"]]
              ELSE [sess EXCEPT !.closed = TRUE, !.released = @ + 1,
                                !.calls = @ + 1,
                                !.last = [op |-> "Close", err |-> "none"]])

\* Browser.FetchRenderedHTMLWithWait, ExecuteScript, Reconnect, called on
\* the Browser from outside a harvest: under b.mu, "browser is closed" for a
\* closed browser, else the session is used and the call succeeds or fails
BrowserCall ==
  /\ sess.browser
  /\ sess.bmu = NoOwner
  /\ sess.calls < MaxBrowserCalls
  /\ \E op \in {"FetchRenderedHTML", "FetchRenderedHTMLWithWait", "ExecuteScript",
                "Reconnect"},
        ok \in BOOLEAN :
       SessStep(IF sess.closed
                THEN [sess EXCEPT !.calls = @ + 1,
                                  !.last = [op |-> op, err |-> "closed"]]
                ELSE [sess EXCEPT !.calls = @ + 1, !.touched = @ + 1,
                                  !.last = [op |-> op,
                                            err |-> IF ok THEN "none" ELSE "other"]])

\* CrawlNewVideos(ctx, 1) was called by every harvester, on a crawler whose
\* cookies were never set, are older than cookieExpireDuration, or are
\* younger
InitSession ==
  /\ InitIdle
  /\ eval = NoEval
  /\ \E t \in {"zero", "stale", "fresh"} :
       sess = [NoSess EXCEPT !.cookieInitTime = t, !.cold = (t # "fresh"),
                             !.pc = [h \in Harvesters |-> "ic_lock"]]

NextSession ==
  \/ Cancel
  \/ BrowserClose
  \/ BrowserCall
  \/ \E h \in Harvesters :
       \/ InitCookiesLock(h)
       \/ InitCookiesCheck(h)
       \/ WarmupFetch(h)
       \/ HarvestLoop(h)
       \/ PageFetch(h)
       \/ GetBrowserLock(h)
       \/ GetBrowserCheck(h)
       \/ GetBrowserNew(h)
       \/ RenderBegin(h)
       \/ RenderEnd(h)

\* harvest operations running side by side on one crawler
SpecSession == InitSession /\ [][NextSession]_vars

\* C31: every request the crawler sends was preceded by the acquisition of a
\* rate-limiter token of its own: warm-up requests included, no more requests
\* were sent than tokens acquired
C31_EveryRequestHasToken ==
  sess.requests <= sess.tokens

\* C32: of the harvest operations that meet a cold or stale session, one
\* alone sends the warm-up requests, all three of them, while the others wait
\* for cookieMu and then skip the warm-up: the warm-up requests are all from
\* one operation, never more than three
C32_OneWarmup ==
  /\ \A i, j \in 1..Len(sess.warmLog) : sess.warmLog[i] = sess.warmLog[j]
  /\ Len(sess.warmLog) <= 3
  /\ ~sess.cold => sess.warmLog = <<>>
  /\ (/\ sess.cold
      /\ ~ctxDone
      /\ \A h \in Harvesters :
           sess.pc[h] \notin {"idle", "ic_lock", "ic_check", "ic_fetch"})
     => Len(sess.warmLog) = 3

\* one operation waits for cookieMu while the other is warming up
C32_Witness ==
  /\ sess.cold
  /\ sess.pc["h1"] = "ic_fetch" /\ sess.cookieMu = "h1"
  /\ sess.pc["h2"] = "ic_lock"
  /\ Len(sess.warmLog) = 2

C34_ClosedIsAbsorbing ==
  [][sess.closed =>
       /\ sess'.closed
       /\ sess'.released = sess.released
       /\ sess'.touched = sess.touched
       /\ sess'.calls = sess.calls + 1
          => sess'.last.err = IF sess'.last.op = "Close" THEN "none" ELSE "closed"
       /\ \A h \in Harvesters :
            (sess.pc[h] = "render_lock" /\ sess'.pc[h] # "render_lock")
            => sess'.res[h] = "closed"]_vars

\* Reconnect was called on a closed browser
C34_Witness ==
  sess.closed /\ sess.released = 1 /\ sess.last = [op |-> "Reconnect", err |-> "closed"]

MaxLoopTicks == 3

\* the timer loop without manual callers: the initial delay, then the ticker
NextTimer ==
  \/ Start
  \/ Stop
  \/ StopReturn
  \/ Cancel
  \/ TickPending
  \/ TimerFireWithin(MaxLoopTicks)
  \/ TimerExit
  \/ Cycle(Timer)

SpecTimer == Init /\ [][NextTimer]_vars


\* C36: Stop() does not abort a cycle that is running: the step that closes
\* the stop channel changes nothing of the cycle or of its context, a timer
\* cycle that is past its lock acquisition leaves the cycle only through its
\* last stage, and Stop() returns only when the timer loop goroutine has
\* exited (or was never started)
C36_StopDoesNotAbort ==
  /\ [](loop.stop = "returned" => pc[Timer] \in {"off", "exited"})
  /\ [][/\ (stopped' /\ ~stopped) =>
            UNCHANGED <<pc, loc, mu, running, ctxDone, storeVars, sent>>
        /\ (stopped /\ LoopAt = "cycle") =>
            IF pc[Timer] = "unlock"
            THEN pc'[Timer] \in {"unlock", "tick"}
            ELSE LoopAt' = "cycle"]_vars

\* Stop() was called while the timer cycle was running, the cycle went on
\* to deliver, the loop exited and Stop() returned
C36_Witness ==
  /\ loop.stop = "returned"
  /\ loop.at = "cycle"
  /\ pc[Timer] = "exited"
  /\ crawls["timer"] = 1
  /\ sent # EmptyBag
  /\ ~ctxDone

\* C37: once the stop channel is closed the timer loop starts no new cycle
C37_NoCycleAfterStop ==
  [][stopped => ~(LoopAt # "cycle" /\ LoopAt' = "cycle")]_vars

\* C38: no timer cycle runs before the initial delay has elapsed; a loop
\* whose stop channel is closed or whose context is cancelled during the
\* initial delay exits with no cycle triggered; every cycle of the loop is
\* triggered by one firing of the delay or of the ticker; a disabled
\* scheduler never starts the loop
C38_InitialDelayThenTicks ==
  /\ [](/\ pc[Timer] \in {"off", "delay"} => ticks = 0 /\ crawls["timer"] = 0
        /\ (pc[Timer] = "exited" /\ loop.at = "delay") =>
             ticks = 0 /\ crawls["timer"] = 0
        /\ crawls["timer"] <= ticks
        /\ ~enabled => pc[Timer] = "off" /\ ticks = 0 /\ crawls["timer"] = 0)
  /\ [][/\ (pc[Timer] = "delay" /\ (stopped \/ ctxDone)) =>
            pc'[Timer] \in {"delay", "exited"}
        /\ (pc[Timer] = "delay" /\ pc'[Timer] \notin {"delay", "exited"}) =>
            ticks' = 1 /\ pc'[Timer] = "locked" /\ mu' = Timer
        /\ (LoopAt # "cycle" /\ LoopAt' = "cycle") =>
            pc[Timer] \in {"delay", "tick"} /\ ticks' = ticks + 1
        /\ ticks' # ticks =>
            /\ ticks' = ticks + 1
            /\ pc[Timer] \in {"delay", "tick"}
            /\ pc'[Timer] = IF mu = NoOwner THEN "locked" ELSE "tick"]_vars

\* the loop ran one cycle after the initial delay and one more on a tick
C38_Witness ==
  /\ ticks = 2
  /\ crawls["timer"] = 2
  /\ pc[Timer] = "tick"
  /\ ~stopped


\* ---------------------------------------------------------------- sweeps
\* video 2 is saved and was not swept yet, the site lists video 1, and the
\* one subscription is to an actress of video 1 only; cycles are triggered by
\* hand and a chat subscribes between or during them
InitSweep ==
  /\ InitCommon
  /\ eval = NoEval
  /\ sess = NoSess
  /\ enabled = FALSE
  /\ pc = [p \in Procs |-> IF p = Timer THEN "off" ELSE "idle"]
  /\ videos = [v \in Videos |-> IF v = 2 THEN "unpushed" ELSE "absent"]
  /\ order = <<2>>
  /\ subs = << [chat |-> 1, type |-> SubTypeActress, keyword |-> <<"a", "b">>,
                enabled |-> TRUE] >>
  /\ media = [v \in Videos |-> MediaOf(v)]
  /\ site = {1}

\* one caller triggers the cycles; chat 1 may subscribe to every video
SpecSweep ==
  InitSweep /\ [][\/ TryRun("m1")
                  \/ Cycle("m1")
                  \/ SubscribeFrom({1}, {<<>>})]_vars

\* C40: a video whose pushed flag is true stays so, and no sweep invokes the
\* transport for it or delivers it to any chat, whatever subscriptions were
\* created since
C40_PushedNeverSentAgain ==
  [][\A v \in Videos :
       videos[v] = "pushed" =>
         /\ videos'[v] = "pushed"
         /\ \A p \in Cyclers :
              ~(pc[p] = "push_send" /\ pc'[p] = "push_record" /\ loc[p].video = v)
         /\ \A c \in Chats :
              CopiesIn([video |-> v, chat |-> c], sent')
                = CopiesIn([video |-> v, chat |-> c], sent)]_vars

\* video 2 matched no subscription when it was swept and was marked pushed;
\* a subscription to every video exists and a second cycle has listed the
\* unpushed videos without it: nothing was sent for video 2
C40_Witness ==
  /\ videos[2] = "pushed"
  /\ \A c \in Chats : CopiesIn([video |-> 2, chat |-> c], sent) = 0
  /\ \E i \in 1..Len(subs) : subs[i].enabled /\ subs[i].type = SubTypeAll
  /\ accepted = 1
  /\ pc["m1"] = "unrun" /\ crawls["manual"] = 2

====
